---- MODULE Spec2Model ----
(***************************************************************************)
(* Worktree lifecycle controller of worktree-cli: create, checkout,       *)
(* remove and setup (src/lib/worktree.ts) over the git primitives of      *)
(* src/utils/git.ts and src/lib/git.ts.                                    *)
(*                                                                         *)
(* A name (branch, identifier, directory) is a sequence of one-character  *)
(* strings, so that the validation and naming functions work on the       *)
(* characters as the source does.  A path is a sequence of names, the     *)
(* empty path being the directory that holds the project.                 *)
(***************************************************************************)
EXTENDS Integers, Sequences, FiniteSets, TLC

VARIABLES
    worktrees,  \* `git worktree list`: sequence of [path, branch], main working tree first
    tip,        \* local branches: name -> set of commits reachable from it
    status,     \* worktree path -> set of `git status --porcelain` lines <<X, Y, file>>
    fs,         \* paths that exist on disk
    origin,     \* the remote: [head: HEAD branch reported | NoName, tip: branch -> commits]
    config,     \* .worktree.json: [defaultBranch: name | NoName]
    su,         \* the running setup call: its position, ledger and interrupt flag
    hook,       \* the running hook phase: its commands, options, position and log
    last        \* the last lifecycle call: its arguments, result and backend calls

vars == <<worktrees, tip, status, fs, origin, config, su, hook, last>>

-----------------------------------------------------------------------------
(* Bounds of the model                                                     *)

MaxCommits == 1     \* commits the environment may add
MaxDepth == 2       \* deepest main working tree that setup may produce
MaxNameLen == 2     \* length of the exhaustively enumerated branch names

-----------------------------------------------------------------------------
(* Names                                                                   *)

NoName == <<>>      \* an absent optional argument / empty string (falsy in the source)
DETACHED == <<"d","e","t","a","c","h","e","d">>

main == <<"m","a","i","n">>
master == <<"m","a","s","t","e","r">>
dev == <<"d","e","v">>
featureLogin == <<"f","/","l">>         \* stands for feature/login
featureDashLogin == <<"f","-","l">>     \* stands for feature-login
dotDot == <<"f",".",".","l">>           \* stands for feature..invalid
lockName == <<"a",".","l","o","c","k">>
dotGit == <<".","g","i","t">>
repo == <<"r","e","p","o">>
srcDir == <<"s","r","c">>
tempDir == <<".","t","m","p">>          \* stands for .tmp-worktree-setup-<pid>

\* s[from..to] of a name
Sub(s, from, to) == SubSeq(s, from, to)

startsWith(s, p) == Len(s) >= Len(p) /\ Sub(s, 1, Len(p)) = p

endsWith(s, p) == Len(s) >= Len(p) /\ Sub(s, Len(s) - Len(p) + 1, Len(s)) = p

\* String.prototype.includes
includes(s, p) == \E i \in 1..(Len(s) - Len(p) + 1) : Sub(s, i, i + Len(p) - 1) = p

\* RegExp.test for a character class
testClass(s, class) == \E i \in 1..Len(s) : s[i] \in class

BRANCH_CONTROL_AND_WHITESPACE == {" ", "\t", "\n", "\r"}

BRANCH_GIT_FORBIDDEN_CHARS == {"\\", "^", "~", ":", "?", "*", "["}

\* (the backquote of the source class has no string literal in TLA+ and is left out)
BRANCH_SHELL_METACHAR == {";", "&", "|", "$", "(", ")", "<", ">"}

\* variant: the pattern without its two-dots alternative
BRANCH_GIT_FORBIDDEN_NoDotDot(s) ==
    \/ testClass(s, BRANCH_GIT_FORBIDDEN_CHARS)
    \/ includes(s, <<"/", "/">>)
    \/ includes(s, <<"@", "{">>)

\* a forbidden character, two dots, two or more slashes, or at-sign followed by brace
BRANCH_GIT_FORBIDDEN(s) ==
    \/ testClass(s, BRANCH_GIT_FORBIDDEN_CHARS)
    \/ includes(s, <<".", ".">>)
    \/ includes(s, <<"/", "/">>)
    \/ includes(s, <<"@", "{">>)

isValidBranchName(branch) ==
    IF branch = NoName THEN FALSE
    ELSE IF branch = <<"@">> THEN FALSE
    ELSE IF startsWith(branch, <<"/">>) \/ startsWith(branch, <<".">>)
            \/ startsWith(branch, <<"-">>) THEN FALSE
    ELSE IF endsWith(branch, <<"/">>) \/ endsWith(branch, <<".">>)
            \/ endsWith(branch, <<".","l","o","c","k">>) THEN FALSE
    ELSE IF testClass(branch, BRANCH_CONTROL_AND_WHITESPACE) THEN FALSE
    ELSE IF BRANCH_GIT_FORBIDDEN(branch) THEN FALSE
    ELSE IF testClass(branch, BRANCH_SHELL_METACHAR) THEN FALSE
    ELSE TRUE

\* variant: replace with a string pattern, which changes the first slash only
branchToDirName_FirstOnly(branch) ==
    IF \E i \in 1..Len(branch) : branch[i] = "/"
    THEN LET k == CHOOSE i \in 1..Len(branch) :
                      branch[i] = "/" /\ \A j \in 1..(i - 1) : branch[j] # "/"
         IN  [i \in 1..Len(branch) |-> IF i = k THEN "-" ELSE branch[i]]
    ELSE branch

\* every slash of the branch name replaced by a dash
RECURSIVE branchToDirName(_)
branchToDirName(branch) ==
    IF branch = <<>> THEN <<>>
    ELSE <<IF Head(branch) = "/" THEN "-" ELSE Head(branch)>>
         \o branchToDirName(Tail(branch))

\* node:path dirname / join on paths held as sequences of names
dirname(path) == IF path = <<>> THEN <<>> ELSE Sub(path, 1, Len(path) - 1)

join(dir, name) == Append(dir, name)

\* isSafePath on the joined path: no ".." anywhere, and nothing normalize() would change
isSafePath(path) ==
    /\ path # <<>>
    /\ \A i \in 1..Len(path) :
          /\ ~includes(path[i], <<".", ".">>)
          /\ path[i] # <<".">>
          /\ path[i] # <<>>

-----------------------------------------------------------------------------
(* The repository as the git primitives see it.  A world is the record of  *)
(* the state variables, so that a handler's calls compose in sequence.     *)

World == [worktrees |-> worktrees, tip |-> tip, status |-> status,
          fs |-> fs, origin |-> origin, config |-> config]

HEAD == <<"H","E","A","D">>
originPrefix == <<"o","r","i","g","i","n","/">>

isPrefix(p, q) == Len(p) <= Len(q) /\ Sub(q, 1, Len(p)) = p

Indexes(w) == 1..Len(w.worktrees)

WorktreePaths(w) == {w.worktrees[i].path : i \in Indexes(w)}

\* one backend call: the primitive, its arguments and what the backend answered
Call(prim, args, out) == [prim |-> prim, args |-> args, out |-> out]

\* fs.exists: stat succeeds
exists(w, path) == path \in w.fs

\* git rev-parse --show-toplevel: the working tree that holds cwd
getGitRoot(w, cwd) ==
    CHOOSE p \in WorktreePaths(w) :
        /\ isPrefix(p, cwd)
        /\ \A q \in WorktreePaths(w) : isPrefix(q, cwd) => Len(q) <= Len(p)

\* the record of the working tree rooted at path
recordAt(w, path) == CHOOSE r \in {w.worktrees[i] : i \in Indexes(w)} : r.path = path

\* git show-ref --quiet refs/heads/<branch>
gitBranchExists(w, branch) == branch \in DOMAIN w.tip

\* git rev-parse --abbrev-ref HEAD: fails on an unborn branch, prints HEAD when detached
gitGetCurrentBranch(w, cwd) ==
    LET r == recordAt(w, getGitRoot(w, cwd))
    IN  IF r.branch = DETACHED THEN [ok |-> TRUE, branch |-> HEAD]
        ELSE IF r.branch \in DOMAIN w.tip THEN [ok |-> TRUE, branch |-> r.branch]
        ELSE [ok |-> FALSE, branch |-> NoName]

\* getDefaultBranch: remote HEAD branch, then local main, local master, current branch
getDefaultBranch(w, cwd) ==
    LET remote == <<Call("remote show origin", <<>>, w.origin.head)>>
        cur == gitGetCurrentBranch(w, cwd)
    IN  IF w.origin.head # NoName
        THEN [ok |-> TRUE, branch |-> w.origin.head, calls |-> remote]
        ELSE IF gitBranchExists(w, main)
        THEN [ok |-> TRUE, branch |-> main,
              calls |-> remote \o <<Call("show-ref", <<main>>, TRUE)>>]
        ELSE IF gitBranchExists(w, master)
        THEN [ok |-> TRUE, branch |-> master,
              calls |-> remote \o <<Call("show-ref", <<main>>, FALSE),
                                    Call("show-ref", <<master>>, TRUE)>>]
        ELSE [ok |-> cur.ok, branch |-> cur.branch,
              calls |-> remote \o <<Call("show-ref", <<main>>, FALSE),
                                    Call("show-ref", <<master>>, FALSE),
                                    Call("rev-parse --abbrev-ref HEAD", <<>>, cur.branch)>>]

\* git branch <branch> <start>: start is a local branch or a remote-tracking ref
gitBranch(w, branch, start) ==
    LET remoteRef == startsWith(start, originPrefix)
        name == IF remoteRef THEN Sub(start, Len(originPrefix) + 1, Len(start)) ELSE start
        known == IF remoteRef THEN name \in DOMAIN w.origin.tip ELSE name \in DOMAIN w.tip
        commits == IF remoteRef THEN w.origin.tip[name] ELSE w.tip[name]
        ok == known /\ branch \notin DOMAIN w.tip
    IN  [ok |-> ok,
         w |-> IF ok THEN [w EXCEPT !.tip = (branch :> commits) @@ w.tip] ELSE w,
         calls |-> <<Call("branch", <<branch, start>>, ok)>>]

\* gitCreateBranch: from a remote ref as given, from a local base, else fetch the base
gitCreateBranch(w, branch, baseBranch) ==
    IF startsWith(baseBranch, originPrefix) THEN gitBranch(w, branch, baseBranch)
    ELSE IF gitBranchExists(w, baseBranch) THEN gitBranch(w, branch, baseBranch)
    ELSE LET fetched == baseBranch \in DOMAIN w.origin.tip
             fetch == <<Call("fetch origin", <<baseBranch>>, fetched)>>
             b == gitBranch(w, branch, originPrefix \o baseBranch)
         IN  IF ~fetched THEN [ok |-> FALSE, w |-> w, calls |-> fetch]
             ELSE [ok |-> b.ok, w |-> b.w, calls |-> fetch \o b.calls]

\* variant: git worktree add --force, which takes a branch checked out elsewhere
gitAddWorktree_Force(w, path, branch) ==
    LET ok == /\ path \notin w.fs
              /\ branch \in DOMAIN w.tip
    IN  [ok |-> ok,
         w |-> IF ok
               THEN [w EXCEPT !.worktrees = Append(@, [path |-> path, branch |-> branch]),
                              !.fs = @ \cup {path, join(path, dotGit)},
                              !.status = (path :> {}) @@ @]
               ELSE w,
         calls |-> <<Call("worktree add", <<path, branch>>, ok)>>]

\* git worktree add <path> <branch>: refuses an existing path, an unknown branch,
\* a branch that another working tree has checked out and a path that is still
\* registered as a working tree though its directory is gone
gitAddWorktree(w, path, branch) ==
    LET ok == /\ path \notin w.fs
              /\ branch \in DOMAIN w.tip
              /\ \A i \in Indexes(w) : w.worktrees[i].branch # branch
              /\ \A i \in Indexes(w) : w.worktrees[i].path # path
    IN  [ok |-> ok,
         w |-> IF ok
               THEN [w EXCEPT !.worktrees = Append(@, [path |-> path, branch |-> branch]),
                              !.fs = @ \cup {path, join(path, dotGit)},
                              !.status = (path :> {}) @@ @]
               ELSE w,
         calls |-> <<Call("worktree add", <<path, branch>>, ok)>>]

Out(result, calls, w, base, ret) ==
    [result |-> result, calls |-> calls, w |-> w, base |-> base, ret |-> ret]

NoRet == [path |-> <<>>]

create(w, cwd, branch, baseBranch) ==
    IF ~isValidBranchName(branch) THEN Out("ValidationError", <<>>, w, NoName, NoRet)
    ELSE
    LET gitRoot == getGitRoot(w, cwd)
        c1 == <<Call("rev-parse --show-toplevel", <<cwd>>, gitRoot)>>
        dirName == branchToDirName(branch)
        projectRoot == dirname(gitRoot)
        worktreeDir == join(projectRoot, dirName)
        d == IF baseBranch # NoName
             THEN [ok |-> TRUE, branch |-> baseBranch, calls |-> <<>>]
             ELSE getDefaultBranch(w, gitRoot)
        branchAlreadyExists == gitBranchExists(w, branch)
        c2 == c1 \o d.calls \o <<Call("show-ref", <<branch>>, branchAlreadyExists)>>
        cb == IF branchAlreadyExists THEN [ok |-> TRUE, w |-> w, calls |-> <<>>]
              ELSE gitCreateBranch(w, branch, d.branch)
        aw == gitAddWorktree(cb.w, worktreeDir, branch)
    IN  IF ~isSafePath(worktreeDir) THEN Out("ValidationError", c1, w, NoName, NoRet)
        ELSE IF exists(w, worktreeDir) THEN Out("FileSystemError", c1, w, NoName, NoRet)
        ELSE IF ~d.ok THEN Out("GitError", c1 \o d.calls, w, NoName, NoRet)
        ELSE IF ~cb.ok THEN Out("GitError", c2 \o cb.calls, cb.w, d.branch, NoRet)
        ELSE IF ~aw.ok THEN Out("GitError", c2 \o cb.calls \o aw.calls, aw.w, d.branch, NoRet)
        ELSE Out("ok", c2 \o cb.calls \o aw.calls, aw.w, d.branch,
                 [path |-> worktreeDir, branch |-> branch, created |-> ~branchAlreadyExists])

\* a worktree record of the world whose root holds dir, if any
insideWorktree(w, dir) == \E p \in WorktreePaths(w) : isPrefix(p, dir)

\* git status --porcelain in dir: the lines <<X, Y, file>> of the working tree
\* that holds dir; fails outside a working tree
gitStatusPorcelain(w, dir) ==
    IF insideWorktree(w, dir) /\ dir \in w.fs
    THEN [ok |-> TRUE, lines |-> w.status[getGitRoot(w, dir)]]
    ELSE [ok |-> FALSE, lines |-> {}]

\* gitGetWorkingDirectoryStatus: the lines sorted into staged, unstaged and untracked
gitGetWorkingDirectoryStatus(lines) ==
    LET untracked == {l \in lines : l[1] = "?" /\ l[2] = "?"}
        rest == lines \ untracked
        staged == {l \in rest : l[1] # " " /\ l[1] # "?"}
        unstaged == {l \in rest : l[2] # " " /\ l[2] # "?"}
    IN  [staged |-> {l[3] : l \in staged},
         unstaged |-> {l[3] : l \in unstaged},
         untracked |-> {l[3] : l \in untracked},
         hasChanges |-> staged # {} \/ unstaged # {} \/ untracked # {}]

\* variant: the includeUntracked option is dropped and untracked files never count
gitHasUncommittedChanges_TrackedOnly(lines, includeUntracked) ==
    LET st == gitGetWorkingDirectoryStatus(lines)
    IN  st.staged # {} \/ st.unstaged # {}

gitHasUncommittedChanges(lines, includeUntracked) ==
    LET st == gitGetWorkingDirectoryStatus(lines)
    IN  IF includeUntracked THEN st.hasChanges
        ELSE st.staged # {} \/ st.unstaged # {}

\* git merge-base --is-ancestor <branch> <target>: exit 0 ancestor, 1 not, 128 bad ref
mergeBaseIsAncestor(w, branch, target) ==
    IF branch \notin DOMAIN w.tip \/ target \notin DOMAIN w.tip THEN 128
    ELSE IF w.tip[branch] \subseteq w.tip[target] THEN 0
    ELSE 1

\* variant: the two revisions are handed to merge-base in the other order
gitIsBranchMerged_Swapped(w, branch, targetBranch) ==
    mergeBaseIsAncestor(w, targetBranch, branch) = 0

\* gitIsBranchMerged: true on exit 0; every failed run carries "exit code" in its
\* message and is read as not merged
gitIsBranchMerged(w, branch, targetBranch) ==
    mergeBaseIsAncestor(w, branch, targetBranch) = 0

\* variant: a removal that deletes whatever working tree sits at the path
gitWorktreeRemove_AnyTree(w, path, force) ==
    LET any == \E i \in Indexes(w) : w.worktrees[i].path = path
        ok == any /\ (force \/ w.status[path] = {})
    IN  [ok |-> ok,
         w |-> IF ok
               THEN [w EXCEPT !.worktrees = SelectSeq(@, LAMBDA r : r.path # path),
                              !.fs = {q \in @ : ~isPrefix(path, q)},
                              !.status = [q \in DOMAIN @ \ {path} |-> @[q]]]
               ELSE w]

\* git worktree remove [--force] <path>: refuses the main working tree, a path that
\* is no working tree, and, without --force, a working tree that is not clean
gitWorktreeRemove(w, path, force) ==
    LET linked == \E i \in Indexes(w) : i > 1 /\ w.worktrees[i].path = path
        ok == linked /\ (force \/ w.status[path] = {})
    IN  [ok |-> ok,
         w |-> IF ok
               THEN [w EXCEPT !.worktrees = SelectSeq(@, LAMBDA r : r.path # path),
                              !.fs = {q \in @ : ~isPrefix(path, q)},
                              !.status = [q \in DOMAIN @ \ {path} |-> @[q]]]
               ELSE w]

\* variant: options.force is not turned into --force
gitRemoveWorktree_NoForce(w, path, force) ==
    LET r == gitWorktreeRemove(w, path, FALSE)
    IN  [ok |-> r.ok, w |-> r.w,
         calls |-> <<Call("worktree remove", <<path, FALSE>>, r.ok)>>]

\* gitRemoveWorktree: --force is passed exactly when options.force is set
gitRemoveWorktree(w, path, force) ==
    LET r == gitWorktreeRemove(w, path, force)
    IN  [ok |-> r.ok, w |-> r.w,
         calls |-> <<Call("worktree remove", <<path, force>>, r.ok)>>]

\* variant: the merge check is made before the status check
safetyGate_MergeFirst(w, gitRoot, worktreeDir, identifier) ==
    LET st == gitStatusPorcelain(w, worktreeDir)
        d == getDefaultBranch(w, gitRoot)
        exit == mergeBaseIsAncestor(w, identifier, d.branch)
        c1 == d.calls \o <<Call("merge-base --is-ancestor", <<identifier, d.branch>>, exit)>>
        c2 == c1 \o <<Call("status --porcelain", <<worktreeDir>>, st.lines)>>
    IN  IF ~d.ok THEN [error |-> "GitError", calls |-> d.calls]
        ELSE IF ~gitIsBranchMerged(w, identifier, d.branch)
        THEN [error |-> "UnmergedBranchError", calls |-> c1]
        ELSE IF ~st.ok THEN [error |-> "GitError", calls |-> c2]
        ELSE IF gitHasUncommittedChanges(st.lines, TRUE)
        THEN [error |-> "UncommittedChangesError", calls |-> c2]
        ELSE [error |-> "", calls |-> c2]

\* the two checks of remove, in the order the source makes them: the status of the
\* working tree with untracked files counted, then the merge into the default branch
safetyGate(w, gitRoot, worktreeDir, identifier) ==
    LET st == gitStatusPorcelain(w, worktreeDir)
        c1 == <<Call("status --porcelain", <<worktreeDir>>, st.lines)>>
        d == getDefaultBranch(w, gitRoot)
        exit == mergeBaseIsAncestor(w, identifier, d.branch)
        c2 == c1 \o d.calls
                 \o <<Call("merge-base --is-ancestor", <<identifier, d.branch>>, exit)>>
    IN  IF ~st.ok THEN [error |-> "GitError", calls |-> c1]
        ELSE IF gitHasUncommittedChanges(st.lines, TRUE)
        THEN [error |-> "UncommittedChangesError", calls |-> c1]
        ELSE IF ~d.ok THEN [error |-> "GitError", calls |-> c1 \o d.calls]
        ELSE IF ~gitIsBranchMerged(w, identifier, d.branch)
        THEN [error |-> "UnmergedBranchError", calls |-> c2]
        ELSE [error |-> "", calls |-> c2]

\* what an UncommittedChangesError carries: the identifier it was made with and the
\* status summary, which remove never hands to it
UncommittedChangesError(identifier) ==
    [path |-> <<>>, identifier |-> identifier, statusSummary |-> {}]

remove(w, cwd, identifier, force) ==
    LET gitRoot == getGitRoot(w, cwd)
        c1 == <<Call("rev-parse --show-toplevel", <<cwd>>, gitRoot)>>
        dirName == branchToDirName(identifier)
        projectRoot == dirname(gitRoot)
        worktreeDir == join(projectRoot, dirName)
        gate == IF force THEN [error |-> "", calls |-> <<>>]
                ELSE safetyGate(w, gitRoot, worktreeDir, identifier)
        rm == gitRemoveWorktree(w, worktreeDir, force)
    IN  IF ~exists(w, worktreeDir) THEN Out("FileSystemError", c1, w, NoName, NoRet)
        ELSE IF gate.error = "UncommittedChangesError"
        THEN Out(gate.error, c1 \o gate.calls, w, NoName, UncommittedChangesError(identifier))
        ELSE IF gate.error # "" THEN Out(gate.error, c1 \o gate.calls, w, NoName, NoRet)
        ELSE IF ~rm.ok
        THEN Out("GitError", c1 \o gate.calls \o rm.calls, rm.w, NoName, NoRet)
        ELSE Out("ok", c1 \o gate.calls \o rm.calls, rm.w, NoName,
                 [path |-> worktreeDir])

\* git ls-remote --heads origin refs/heads/<branch>
gitRemoteBranchExists(w, branch) == branch \in DOMAIN w.origin.tip

checkout(w, cwd, branch) ==
    IF ~isValidBranchName(branch) THEN Out("ValidationError", <<>>, w, NoName, NoRet)
    ELSE
    LET gitRoot == getGitRoot(w, cwd)
        c1 == <<Call("rev-parse --show-toplevel", <<cwd>>, gitRoot),
                Call("worktree list", <<>>, w.worktrees)>>
        found == {i \in Indexes(w) : w.worktrees[i].branch = branch}
        existingWorktree == w.worktrees[CHOOSE i \in found : \A j \in found : i <= j]
        localExists == gitBranchExists(w, branch)
        remoteExists == gitRemoteBranchExists(w, branch)
        worktreeDir == join(dirname(gitRoot), branchToDirName(branch))
        c2 == c1 \o <<Call("show-ref", <<branch>>, localExists)>>
        c3 == c2 \o <<Call("ls-remote", <<branch>>, remoteExists)>>
        awLocal == gitAddWorktree(w, worktreeDir, branch)
        cb == gitCreateBranch(w, branch, originPrefix \o branch)
        c4 == c3 \o <<Call("fetch origin", <<branch>>, TRUE)>> \o cb.calls
        awRemote == gitAddWorktree(cb.w, worktreeDir, branch)
    IN  IF found # {}
        THEN Out("ok", c1, w, NoName,
                 [path |-> existingWorktree.path, branch |-> existingWorktree.branch,
                  action |-> "switched"])
        ELSE IF localExists
        THEN IF ~isSafePath(worktreeDir) THEN Out("ValidationError", c2, w, NoName, NoRet)
             ELSE IF exists(w, worktreeDir) THEN Out("FileSystemError", c2, w, NoName, NoRet)
             ELSE IF ~awLocal.ok THEN Out("GitError", c2 \o awLocal.calls, w, NoName, NoRet)
             ELSE Out("ok", c2 \o awLocal.calls, awLocal.w, NoName,
                      [path |-> worktreeDir, branch |-> branch, action |-> "created",
                       created |-> FALSE, source |-> "local"])
        ELSE IF remoteExists
        THEN IF ~isSafePath(worktreeDir) THEN Out("ValidationError", c3, w, NoName, NoRet)
             ELSE IF exists(w, worktreeDir) THEN Out("FileSystemError", c3, w, NoName, NoRet)
             ELSE IF ~cb.ok THEN Out("GitError", c4, cb.w, NoName, NoRet)
             ELSE IF ~awRemote.ok
             THEN Out("GitError", c4 \o awRemote.calls, awRemote.w, NoName, NoRet)
             ELSE Out("ok", c4 \o awRemote.calls
                            \o <<Call("branch --set-upstream-to", <<branch>>, TRUE)>>,
                      awRemote.w, NoName,
                      [path |-> worktreeDir, branch |-> branch, action |-> "created",
                       created |-> FALSE, source |-> "remote"])
        ELSE Out("ValidationError", c3, w, NoName, NoRet)

-----------------------------------------------------------------------------
(* Actions: one per lifecycle call, each from the working directory of the  *)
(* invoking process, and the steps of the user on the repository between    *)
(* calls.                                                                   *)

\* the state variables take the values of world w
Becomes(w) ==
    /\ worktrees' = w.worktrees
    /\ tip' = w.tip
    /\ status' = w.status
    /\ fs' = w.fs
    /\ origin' = w.origin
    /\ config' = w.config

\* what was true of the call's target when the call was made
Before(w, cwd, id) ==
    LET target == join(dirname(getGitRoot(w, cwd)), branchToDirName(id))
        at == {i \in Indexes(w) : w.worktrees[i].path = target}
        d == getDefaultBranch(w, getGitRoot(w, cwd))
    IN  [path |-> target,
         index |-> IF at = {} THEN 0 ELSE CHOOSE i \in at : TRUE,
         lines |-> IF target \in DOMAIN w.status THEN w.status[target] ELSE {},
         ancestor |-> /\ d.ok
                      /\ id \in DOMAIN w.tip
                      /\ d.branch \in DOMAIN w.tip
                      /\ w.tip[id] \subseteq w.tip[d.branch],
         branchExisted |-> id \in DOMAIN w.tip,
         primary |-> w.worktrees[1].path]

Returned(op, id, base, force, o, pre) ==
    [op |-> op, id |-> id, arg |-> base, force |-> force, result |-> o.result,
     calls |-> o.calls, base |-> o.base, ret |-> o.ret, pre |-> pre]

\* the arguments the calls are made with
BranchArgs == {main, featureLogin, featureDashLogin, dotDot}

Identifiers == {main, featureLogin, featureDashLogin}

BaseArgs == {NoName}

NotRunning == [pc |-> "idle"]

\* no hook phase is running
NoPhase == [pc |-> "idle"]

\* no call is waiting to be read by its caller
Idle == [op |-> "none"]

Create(cwd, branch, baseBranch) ==
    LET o == create(World, cwd, branch, baseBranch)
    IN  /\ su = NotRunning
        /\ last = Idle
        /\ Becomes(o.w)
        /\ UNCHANGED <<su, hook>>
        /\ last' = Returned("create", branch, baseBranch, FALSE, o,
                            Before(World, cwd, branch))

Checkout(cwd, branch) ==
    LET o == checkout(World, cwd, branch)
    IN  /\ su = NotRunning
        /\ last = Idle
        /\ Becomes(o.w)
        /\ UNCHANGED <<su, hook>>
        /\ last' = Returned("checkout", branch, NoName, FALSE, o,
                            Before(World, cwd, branch))

Remove(cwd, identifier, force) ==
    LET o == remove(World, cwd, identifier, force)
    IN  /\ su = NotRunning
        /\ last = Idle
        /\ Becomes(o.w)
        /\ UNCHANGED <<su, hook>>
        /\ last' = Returned("remove", identifier, NoName, force, o,
                            Before(World, cwd, identifier))

\* the user's work in a working tree: one file staged, modified or left untracked
StatusLines == {<<"M", " ", "a.txt">>, <<" ", "M", "a.txt">>, <<"?", "?", "a.txt">>}

Edit(path, line) ==
    /\ su = NotRunning
    /\ hook = NoPhase
    /\ last = Idle
    /\ status[path] = {}
    /\ status' = [status EXCEPT ![path] = {line}]
    /\ UNCHANGED <<worktrees, tip, fs, origin, config, su, hook>>
    /\ last' = Idle

Discard(path) ==
    /\ su = NotRunning
    /\ hook = NoPhase
    /\ last = Idle
    /\ status[path] # {}
    /\ status' = [status EXCEPT ![path] = {}]
    /\ UNCHANGED <<worktrees, tip, fs, origin, config, su, hook>>
    /\ last' = Idle

Commits == UNION {tip[b] : b \in DOMAIN tip}

\* git add and git commit in a working tree: its branch gains a commit
Commit(path) ==
    LET b == recordAt(World, path).branch
        c == CHOOSE n \in 1..MaxCommits : n \notin Commits
    IN  /\ su = NotRunning
        /\ last = Idle
        /\ status[path] # {}
        /\ b \in DOMAIN tip
        /\ \E n \in 1..MaxCommits : n \notin Commits
        /\ tip' = [tip EXCEPT ![b] = @ \cup {c}]
        /\ status' = [status EXCEPT ![path] = {}]
        /\ UNCHANGED <<worktrees, fs, origin, config, su, hook>>
        /\ last' = Idle

\* git merge <branch> in the main working tree
Merge(branch) ==
    LET into == worktrees[1].branch
    IN  /\ su = NotRunning
        /\ last = Idle
        /\ into \in DOMAIN tip
        /\ ~(tip[branch] \subseteq tip[into])
        /\ tip' = [tip EXCEPT ![into] = @ \cup tip[branch]]
        /\ UNCHANGED <<worktrees, status, fs, origin, config, su, hook>>
        /\ last' = Idle

-----------------------------------------------------------------------------
(* setup: the restructuring of a plain clone.  The preconditions and the   *)
(* creation of the staging directory are one step; each move, the rename   *)
(* and each restore is a step of its own, so that a signal can arrive      *)
(* between any two of them.                                                 *)

\* fs.rename of a directory or file: every path below source moves with it
renamed(paths, source, destination) ==
    {IF isPrefix(source, q)
     THEN destination \o Sub(q, Len(source) + 1, Len(q))
     ELSE q : q \in paths}

\* move(source, destination): what the world is after the rename; the main working
\* tree is wherever its .git directory is
move(w, source, destination) ==
    LET old == w.worktrees[1].path
        gitDir == join(old, dotGit)
        new == IF isPrefix(source, gitDir)
               THEN dirname(destination \o Sub(gitDir, Len(source) + 1, Len(gitDir)))
               ELSE old
    IN  [w EXCEPT !.fs = renamed(@, source, destination),
                  !.worktrees = [@ EXCEPT ![1].path = new],
                  !.status = [q \in (DOMAIN @ \ {old}) \cup {new} |->
                                 IF q = new THEN @[old] ELSE @[q]]]

\* variant: a listing that leaves out the entries whose name starts with a dot
getAllItems_NoHidden(w, dir) ==
    {n \in {q[Len(dir) + 1] : q \in {x \in w.fs : isPrefix(dir, x) /\ Len(x) = Len(dir) + 1}} :
        n[1] # "."}

\* getAllItems('.'): the names of the entries of dir
getAllItems(w, dir) ==
    {q[Len(dir) + 1] : q \in {x \in w.fs : isPrefix(dir, x) /\ Len(x) = Len(dir) + 1}}

\* the orders in which readdir may list the entries
Orders(S) ==
    {o \in [1..Cardinality(S) -> S] : \A i, j \in 1..Cardinality(S) : o[i] = o[j] => i = j}

\* gitIsWorktree: git-dir differs from git-common-dir, as in a linked working tree
gitIsWorktree(w, cwd) ==
    \E i \in Indexes(w) : i > 1 /\ w.worktrees[i].path = getGitRoot(w, cwd)

\* the directories setup may be called from: a working tree or its src directory
SetupCwds ==
    WorktreePaths(World) \cup ({join(p, srcDir) : p \in WorktreePaths(World)} \cap fs)

TargetArgs == {NoName, featureLogin}

\* variant: the staging directory is made before the checks
setupChecks_StagingFirst(w, cwd) ==
    LET cur == gitGetCurrentBranch(w, cwd)
        st == gitStatusPorcelain(w, cwd)
        made == [w EXCEPT !.fs = @ \cup {join(cwd, tempDir)}]
        c1 == <<Call("rev-parse --git-dir", <<cwd>>, gitIsWorktree(w, cwd))>>
        c2 == c1 \o <<Call("rev-parse --abbrev-ref HEAD", <<>>, cur.branch)>>
        c3 == c2 \o <<Call("status --porcelain", <<cwd>>, st.lines)>>
    IN  IF gitIsWorktree(w, cwd) THEN Out("ValidationError", c1, made, NoName, NoRet)
        ELSE IF ~exists(w, join(cwd, dotGit))
        THEN Out("ValidationError", c1, made, NoName, NoRet)
        ELSE IF ~cur.ok THEN Out("GitError", c2, made, NoName, NoRet)
        ELSE IF gitHasUncommittedChanges(st.lines, FALSE)
        THEN Out("UncommittedChangesError", c3, made, NoName, NoRet)
        ELSE Out("ok", c3, made, cur.branch, NoRet)

\* variant: the status of the working tree is not asked for
setupChecks_NoStatusCheck(w, cwd) ==
    LET cur == gitGetCurrentBranch(w, cwd)
        c1 == <<Call("rev-parse --git-dir", <<cwd>>, gitIsWorktree(w, cwd))>>
        c2 == c1 \o <<Call("rev-parse --abbrev-ref HEAD", <<>>, cur.branch)>>
    IN  IF gitIsWorktree(w, cwd) THEN Out("ValidationError", c1, w, NoName, NoRet)
        ELSE IF ~exists(w, join(cwd, dotGit)) THEN Out("ValidationError", c1, w, NoName, NoRet)
        ELSE IF ~cur.ok THEN Out("GitError", c2, w, NoName, NoRet)
        ELSE Out("ok", c2, w, cur.branch, NoRet)

\* the checks setup makes before its try block: not in a linked working tree, at
\* the repository root, a current branch, no change to tracked files
setupChecks(w, cwd) ==
    LET cur == gitGetCurrentBranch(w, cwd)
        st == gitStatusPorcelain(w, cwd)
        c1 == <<Call("rev-parse --git-dir", <<cwd>>, gitIsWorktree(w, cwd))>>
        c2 == c1 \o <<Call("rev-parse --abbrev-ref HEAD", <<>>, cur.branch)>>
        c3 == c2 \o <<Call("status --porcelain", <<cwd>>, st.lines)>>
    IN  IF gitIsWorktree(w, cwd) THEN Out("ValidationError", c1, w, NoName, NoRet)
        ELSE IF ~exists(w, join(cwd, dotGit)) THEN Out("ValidationError", c1, w, NoName, NoRet)
        ELSE IF ~cur.ok THEN Out("GitError", c2, w, NoName, NoRet)
        ELSE IF gitHasUncommittedChanges(st.lines, FALSE)
        THEN Out("UncommittedChangesError", c3, w, NoName, NoRet)
        ELSE Out("ok", c3, w, cur.branch, NoRet)

\* createDir(tempDir): mkdir -p of the staging directory
createDir(w, path) == [w EXCEPT !.fs = @ \cup {path}]

\* setup up to the first move: the checks, the staging directory, readdir.  The
\* model restructures a clone that has no linked working tree yet and stops at
\* MaxDepth: setup moves the git directory, and what git makes of the links of
\* older working trees after that is outside the calls modelled here.
SetupStart(cwd, targetDir) ==
    LET o == setupChecks(World, cwd)
        made == createDir(o.w, join(cwd, tempDir))
    IN  /\ su = NotRunning
        /\ last = Idle
        /\ IF o.result # "ok"
           THEN /\ Becomes(o.w)
                /\ UNCHANGED <<su, hook>>
                /\ last' = Returned("setup", targetDir, NoName, FALSE, o,
                                    Before(World, cwd, targetDir))
           ELSE /\ Len(worktrees) = 1
                /\ Len(cwd) < MaxDepth
                /\ \E items \in Orders(getAllItems(made, cwd)) :
                      su' = [pc |-> "moving", cwd |-> cwd, arg |-> targetDir,
                             targetDirName |-> IF targetDir # NoName THEN targetDir
                                               ELSE o.base,
                             items |-> items, itemsToRollback |-> <<>>,
                             interrupted |-> FALSE, error |-> "", restored |-> 0,
                             calls |-> o.calls, primary |-> worktrees[1].path,
                             before |-> fs, rollbackErrors |-> <<>>]
                /\ Becomes(made)
                /\ UNCHANGED hook
                /\ last' = Idle

\* variant: a moved entry is not entered in the ledger
SetupMove_NoLedger ==
    LET item == Head(su.items)
        staging == join(su.cwd, tempDir)
    IN  /\ su.pc = "moving"
        /\ last = Idle
        /\ su.items # <<>>
        /\ IF su.interrupted
           THEN /\ su' = [su EXCEPT !.pc = "rollback", !.error = "interrupted"]
                /\ UNCHANGED <<worktrees, tip, status, fs, origin, config, hook>>
           ELSE IF item = tempDir
           THEN /\ su' = [su EXCEPT !.items = Tail(@)]
                /\ UNCHANGED <<worktrees, tip, status, fs, origin, config, hook>>
           ELSE /\ Becomes(move(World, join(su.cwd, item), join(staging, item)))
                /\ UNCHANGED hook
                /\ su' = [su EXCEPT !.items = Tail(@)]
        /\ last' = Idle

\* one pass of the loop over the items: the interrupt check, then the move
SetupMove ==
    LET item == Head(su.items)
        staging == join(su.cwd, tempDir)
    IN  /\ su.pc = "moving"
        /\ last = Idle
        /\ su.items # <<>>
        /\ IF su.interrupted
           THEN /\ su' = [su EXCEPT !.pc = "rollback", !.error = "interrupted"]
                /\ UNCHANGED <<worktrees, tip, status, fs, origin, config, hook>>
           ELSE IF item = tempDir
           THEN /\ su' = [su EXCEPT !.items = Tail(@)]
                /\ UNCHANGED <<worktrees, tip, status, fs, origin, config, hook>>
           ELSE /\ Becomes(move(World, join(su.cwd, item), join(staging, item)))
                /\ UNCHANGED hook
                /\ su' = [su EXCEPT !.items = Tail(@),
                                    !.itemsToRollback = Append(@, item)]
        /\ last' = Idle

\* fs.rename(tempDir, targetDirName): the parent of the target must exist, the
\* target must not
renameFails(w, dir, name) ==
    \/ testClass(name, {"/"})
    \/ exists(w, join(dir, name))

\* after the loop: the staging directory takes the target name and setup returns
SetupRename ==
    LET staging == join(su.cwd, tempDir)
        target == join(su.cwd, su.targetDirName)
        done == move(World, staging, target)
    IN  /\ su.pc = "moving"
        /\ last = Idle
        /\ su.items = <<>>
        /\ IF renameFails(World, su.cwd, su.targetDirName)
           THEN /\ su' = [su EXCEPT !.pc = "rollback", !.error = "rename"]
                /\ UNCHANGED <<worktrees, tip, status, fs, origin, config, hook>>
                /\ last' = Idle
           ELSE /\ Becomes(done)
                /\ UNCHANGED hook
                /\ su' = NotRunning
                /\ last' = Returned("setup", su.arg, NoName, FALSE,
                                    Out("ok", su.calls, done, NoName,
                                        [repositoryPath |-> su.cwd, worktreePath |-> target]),
                                    [primary |-> su.primary, cwd |-> su.cwd,
                                     before |-> su.before,
                                     targetDirName |-> su.targetDirName])

\* rollbackSetup, one ledger entry per step: the entry moves back to where it was
SetupRestore ==
    LET item == su.itemsToRollback[su.restored + 1]
        staging == join(su.cwd, tempDir)
    IN  /\ su.pc = "rollback"
        /\ last = Idle
        /\ su.restored < Len(su.itemsToRollback)
        /\ Becomes(move(World, join(staging, item), join(su.cwd, item)))
        /\ UNCHANGED hook
        /\ su' = [su EXCEPT !.restored = @ + 1]
        /\ last' = Idle

\* the catch block of setup: the error rollbackSetup throws is written to the log;
\* a ValidationError, FileSystemError or GitError is thrown again as it is, any
\* other error as a FileSystemError that quotes its message
setupCatch(error, rollbackErrors) ==
    [name |-> "FileSystemError", message |-> error, attached |-> <<>>,
     logged |-> rollbackErrors]

\* rollbackSetup when the move of a ledger entry back fails: the error is collected
\* and the loop goes on; the entry stays in the staging directory
SetupRestoreFails ==
    LET item == su.itemsToRollback[su.restored + 1]
    IN  /\ su.pc = "rollback"
        /\ last = Idle
        /\ su.restored < Len(su.itemsToRollback)
        /\ su' = [su EXCEPT !.restored = @ + 1,
                            !.rollbackErrors = Append(@, item)]
        /\ UNCHANGED <<worktrees, tip, status, fs, origin, config, hook, last>>

\* the end of rollbackSetup and of the catch block: rm -rf of the staging directory,
\* then the error is thrown, every cause wrapped as or already a FileSystemError
SetupCleanup ==
    LET staging == join(su.cwd, tempDir)
        cleaned == [World EXCEPT !.fs = {q \in @ : ~isPrefix(staging, q)}]
    IN  /\ su.pc = "rollback"
        /\ last = Idle
        /\ su.restored = Len(su.itemsToRollback)
        /\ Becomes(cleaned)
        /\ UNCHANGED hook
        /\ su' = NotRunning
        /\ last' = Returned("setup", su.arg, NoName, FALSE,
                            Out("FileSystemError", su.calls, cleaned, NoName, NoRet),
                            [primary |-> su.primary, cwd |-> su.cwd,
                             before |-> su.before, cause |-> su.error,
                             ledger |-> su.itemsToRollback,
                             rollbackErrors |-> su.rollbackErrors,
                             thrown |-> setupCatch(su.error, su.rollbackErrors)])

\* SIGINT or SIGTERM while the handler is installed
Interrupt ==
    /\ su.pc \in {"moving", "rollback"}
    /\ last = Idle
    /\ ~su.interrupted
    /\ su' = [su EXCEPT !.interrupted = TRUE]
    /\ UNCHANGED <<worktrees, tip, status, fs, origin, config, hook, last>>

-----------------------------------------------------------------------------
(* Hook security: the classification of a hook command (src/lib/hooks.ts). *)
(* A command is a sequence of one-character strings and a pattern is a     *)
(* sequence of elements matched against it from a position on.             *)

WhiteSpace == {" ", "\t", "\n", "\r", "\f"}
LineTerminators == {"\n", "\r"}
WordChars ==
    {"a", "b", "c", "d", "e", "f", "g", "h", "i", "j", "k", "l", "m", "n", "o", "p", "q", "r", "s", "t", "u", "v", "w", "x", "y", "z",
     "A", "B", "C", "D", "E", "F", "G", "H", "I", "J", "K", "L", "M", "N", "O", "P", "Q", "R", "S", "T", "U", "V", "W", "X", "Y", "Z",
     "0", "1", "2", "3", "4", "5", "6", "7", "8", "9", "_"}

\* String.prototype.toLowerCase on the letters of the model
toLowerCase(s) ==
    LET pairs ==
            {<<"A","a">>, <<"B","b">>, <<"C","c">>, <<"D","d">>, <<"E","e">>,
             <<"F","f">>, <<"G","g">>, <<"H","h">>, <<"I","i">>, <<"J","j">>,
             <<"K","k">>, <<"L","l">>, <<"M","m">>, <<"N","n">>, <<"O","o">>,
             <<"P","p">>, <<"Q","q">>, <<"R","r">>, <<"S","s">>, <<"T","t">>,
             <<"U","u">>, <<"V","v">>, <<"W","w">>, <<"X","x">>, <<"Y","y">>,
             <<"Z","z">>}
        lower(c) == IF \E p \in pairs : p[1] = c
                    THEN (CHOOSE p \in pairs : p[1] = c)[2]
                    ELSE c
    IN  [i \in 1..Len(s) |-> lower(s[i])]

\* String.prototype.trim
trim(s) ==
    LET kept == {i \in 1..Len(s) : s[i] \notin WhiteSpace}
        head == CHOOSE i \in kept : \A j \in kept : i <= j
        last1 == CHOOSE i \in kept : \A j \in kept : j <= i
    IN  IF kept = {} THEN <<>> ELSE Sub(s, head, last1)

RECURSIVE ends(_, _, _, _)
RECURSIVE repeat(_, _, _, _)

\* the positions that follow a match of the element e started at position p
stepOne(s, p, e) ==
    LET litAt(w) == p + Len(w) - 1 <= Len(s) /\ Sub(s, p, p + Len(w) - 1) = w
        wordAt(r) == r \in 1..Len(s) /\ s[r] \in WordChars
        inClass(ch) == (ch \in e.c) # e.neg
    IN  CASE e.t = "bol" -> IF p = 1 THEN {p} ELSE {}
          [] e.t = "eol" -> IF p = Len(s) + 1 THEN {p} ELSE {}
          [] e.t = "b" -> IF wordAt(p - 1) # wordAt(p) THEN {p} ELSE {}
          [] e.t = "lit" -> IF litAt(e.w) THEN {p + Len(e.w)} ELSE {}
          [] e.t = "opt" -> {p} \cup (IF litAt(e.w) THEN {p + Len(e.w)} ELSE {})
          [] e.t = "alt" -> {p + Len(w) : w \in {x \in e.ws : litAt(x)}}
          [] e.t = "one" -> IF p <= Len(s) /\ inClass(s[p]) THEN {p + 1} ELSE {}
          [] e.t = "star" -> {r \in p..(Len(s) + 1) : \A m \in p..(r - 1) : inClass(s[m])}
          [] e.t = "plus" -> {r \in (p + 1)..(Len(s) + 1) : \A m \in p..(r - 1) : inClass(s[m])}
          [] e.t = "optg" -> {p} \cup ends(s, {p}, e.sub, 1)
          [] e.t = "rep" -> repeat(s, ends(s, {p}, e.sub, 1), e.sub, {})

\* the positions that follow a match of pat[k..] started at a position of from
ends(s, from, pat, k) ==
    IF k > Len(pat) \/ from = {}
    THEN from
    ELSE ends(s, UNION {stepOne(s, p, pat[k]) : p \in from}, pat, k + 1)

\* the positions that follow one more match of the group, and so on
repeat(s, from, sub, seen) ==
    IF from \subseteq seen
    THEN seen
    ELSE repeat(s, ends(s, from \ seen, sub, 1), sub, seen \cup from)

\* RegExp.prototype.test, the flag i being the only flag the source uses
test(pattern, i, s) ==
    LET subject == IF i THEN toLowerCase(s) ELSE s
    IN  \E start \in 1..(Len(s) + 1) : ends(subject, {start}, pattern, 1) # {}

SAFE_RM_PATHS == {
    <<"n","o","d","e","_","m","o","d","u","l","e","s">>,
    <<"d","i","s","t">>,
    <<".","c","a","c","h","e">>,
    <<"b","u","i","l","d">>,
    <<"c","o","v","e","r","a","g","e">>,
    <<".","n","e","x","t">>,
    <<".","t","u","r","b","o">>,
    <<"_","_","p","y","c","a","c","h","e","_","_">>,
    <<".","p","y","t","e","s","t","_","c","a","c","h","e">>,
    <<"t","a","r","g","e","t">>,
    <<"o","u","t">>,
    <<".","p","a","r","c","e","l","-","c","a","c","h","e">>,
    <<".","n","u","x","t">>,
    <<".","o","u","t","p","u","t">>}

\* the regular expressions of the source, each a sequence of elements: start and
\* end of the input, word boundary, literal, optional literal, one word of a set,
\* one character of a class, any number of them, at least one of them, an optional
\* group, a group once or more
RegExps ==
    LET Elem(t) == [t |-> t, w |-> <<>>, ws |-> {}, c |-> {}, neg |-> FALSE, sub |-> <<>>]
        Bol == Elem("bol")
        Eol == Elem("eol")
        B == Elem("b")
        Lit(w) == [Elem("lit") EXCEPT !.w = w]
        Opt(w) == [Elem("opt") EXCEPT !.w = w]
        Alt(ws) == [Elem("alt") EXCEPT !.ws = ws]
        One(c, neg) == [Elem("one") EXCEPT !.c = c, !.neg = neg]
        Star(c, neg) == [Elem("star") EXCEPT !.c = c, !.neg = neg]
        Plus(c, neg) == [Elem("plus") EXCEPT !.c = c, !.neg = neg]
        OptG(sub) == [Elem("optg") EXCEPT !.sub = sub]
        Rep(sub) == [Elem("rep") EXCEPT !.sub = sub]
        pipedToShell(tool) ==
            <<B, Lit(tool), Plus(WhiteSpace, FALSE), Star({"|"}, TRUE), Lit(<<"|">>),
              Star(WhiteSpace, FALSE), Opt(<<"b","a">>), Lit(<<"s","h">>), B>>
    IN  [blocked |-> <<
            [pattern |-> pipedToShell(<<"c","u","r","l">>), i |-> TRUE],
            [pattern |-> pipedToShell(<<"w","g","e","t">>), i |-> TRUE],
            [pattern |-> <<B, Lit(<<"s","u","d","o">>), B>>, i |-> FALSE],
            [pattern |-> <<B, Lit(<<"e","v","a","l">>), Plus(WhiteSpace, FALSE)>>, i |-> FALSE]>>,
         safe |-> <<
            <<Bol, Star(WhiteSpace, FALSE), Lit(<<"n","p","m">>), Plus(WhiteSpace, FALSE), Alt({<<"i","n","s","t","a","l","l">>, <<"c","i">>, <<"r","u","n">>, <<"t","e","s","t">>, <<"b","u","i","l","d">>, <<"s","t","a","r","t">>, <<"e","x","e","c">>}), B>>,
            <<Bol, Star(WhiteSpace, FALSE), Lit(<<"y","a","r","n">>), OptG(<<Plus(WhiteSpace, FALSE), Alt({<<"i","n","s","t","a","l","l">>, <<"a","d","d">>, <<"r","u","n">>, <<"t","e","s","t">>, <<"b","u","i","l","d">>, <<"s","t","a","r","t">>})>>), Star(WhiteSpace, FALSE), Eol>>,
            <<Bol, Star(WhiteSpace, FALSE), Lit(<<"y","a","r","n">>), Plus(WhiteSpace, FALSE), Alt({<<"i","n","s","t","a","l","l">>, <<"a","d","d">>, <<"r","u","n">>, <<"t","e","s","t">>, <<"b","u","i","l","d">>, <<"s","t","a","r","t">>}), B>>,
            <<Bol, Star(WhiteSpace, FALSE), Lit(<<"p","n","p","m">>), Plus(WhiteSpace, FALSE), Alt({<<"i","n","s","t","a","l","l">>, <<"a","d","d">>, <<"r","u","n">>, <<"t","e","s","t">>, <<"b","u","i","l","d">>, <<"s","t","a","r","t">>}), B>>,
            <<Bol, Star(WhiteSpace, FALSE), Lit(<<"b","u","n">>), Plus(WhiteSpace, FALSE), Alt({<<"i","n","s","t","a","l","l">>, <<"a","d","d">>, <<"r","u","n">>, <<"t","e","s","t">>, <<"b","u","i","l","d">>, <<"s","t","a","r","t">>}), B>>,
            <<Bol, Star(WhiteSpace, FALSE), Lit(<<"d","o","c","k","e","r">>), Plus(WhiteSpace, FALSE), Alt({<<"c","o","m","p","o","s","e">>}), B>>,
            <<Bol, Star(WhiteSpace, FALSE), Lit(<<"d","o","c","k","e","r","-","c","o","m","p","o","s","e">>), B>>,
            <<Bol, Star(WhiteSpace, FALSE), Lit(<<"m","k","d","i","r">>), Plus(WhiteSpace, FALSE), Opt(<<"-">>), Opt(<<"p">>), One(WhiteSpace, FALSE)>>,
            <<Bol, Star(WhiteSpace, FALSE), Lit(<<"c","p">>), Plus(WhiteSpace, FALSE)>>,
            <<Bol, Star(WhiteSpace, FALSE), Lit(<<"m","v">>), Plus(WhiteSpace, FALSE)>>,
            <<Bol, Star(WhiteSpace, FALSE), Lit(<<"t","o","u","c","h">>), Plus(WhiteSpace, FALSE)>>,
            <<Bol, Star(WhiteSpace, FALSE), Lit(<<"e","c","h","o">>), Plus(WhiteSpace, FALSE)>>,
            <<Bol, Star(WhiteSpace, FALSE), Lit(<<"c","a","t">>), Plus(WhiteSpace, FALSE)>>,
            <<Bol, Star(WhiteSpace, FALSE), Lit(<<"l","s">>), B>>,
            <<Bol, Star(WhiteSpace, FALSE), Lit(<<"p","w","d">>), B>>,
            <<Bol, Star(WhiteSpace, FALSE), Lit(<<"g","i","t">>), Plus(WhiteSpace, FALSE), Alt({<<"f","e","t","c","h">>, <<"p","u","l","l">>, <<"c","h","e","c","k","o","u","t">>, <<"b","r","a","n","c","h">>, <<"s","t","a","t","u","s">>, <<"l","o","g">>, <<"d","i","f","f">>}), B>>,
            <<Bol, Star(WhiteSpace, FALSE), Lit(<<"m","a","k","e">>), B>>,
            <<Bol, Star(WhiteSpace, FALSE), Lit(<<"c","m","a","k","e">>), B>>,
            <<Bol, Star(WhiteSpace, FALSE), Lit(<<"c","a","r","g","o">>), Plus(WhiteSpace, FALSE), Alt({<<"b","u","i","l","d">>, <<"r","u","n">>, <<"t","e","s","t">>}), B>>,
            <<Bol, Star(WhiteSpace, FALSE), Lit(<<"g","o">>), Plus(WhiteSpace, FALSE), Alt({<<"b","u","i","l","d">>, <<"r","u","n">>, <<"t","e","s","t">>, <<"m","o","d">>}), B>>,
            <<Bol, Star(WhiteSpace, FALSE), Lit(<<"p","y","t","h","o","n">>), Plus(WhiteSpace, FALSE), Lit(<<"-","m">>), Plus(WhiteSpace, FALSE), Alt({<<"p","i","p">>, <<"v","e","n","v">>}), B>>,
            <<Bol, Star(WhiteSpace, FALSE), Lit(<<"p","i","p">>), Plus(WhiteSpace, FALSE), Alt({<<"i","n","s","t","a","l","l">>}), B>>,
            <<Bol, Star(WhiteSpace, FALSE), Lit(<<"c","o","m","p","o","s","e","r">>), Plus(WhiteSpace, FALSE), Alt({<<"i","n","s","t","a","l","l">>}), B>>,
            <<Bol, Star(WhiteSpace, FALSE), Lit(<<"b","u","n","d","l","e">>), Plus(WhiteSpace, FALSE), Alt({<<"i","n","s","t","a","l","l">>}), B>>>>,
         rm |->
            <<B, Lit(<<"r","m">>), Plus(WhiteSpace, FALSE),
              Rep(<<Lit(<<"-">>), Plus({"r", "f"}, FALSE), Plus(WhiteSpace, FALSE)>>)>>]

\* curl or wget piped to a shell, sudo, eval
BLOCKED_PATTERNS == RegExps.blocked

SAFE_PATTERNS == RegExps.safe

\* rm with one or more groups of the flags r and f
rmFlags == RegExps.rm

\* the least and the greatest of a set of positions
first(positions) == CHOOSE p \in positions : \A r \in positions : p <= r
final(positions) == CHOOSE p \in positions : \A r \in positions : r <= p

\* where the target of an rm -rf matched at start can begin: after the flags,
\* with a character of the same line to begin with
rmTargets(command, start) ==
    {p \in ends(command, {start}, rmFlags, 1) :
        p <= Len(command) /\ command[p] \notin LineTerminators}

\* the rest of the line from a position on
restOfLine(s, from) ==
    LET stops == {p \in from..Len(s) : s[p] \in LineTerminators}
    IN  Sub(s, from, IF stops = {} THEN Len(s) ELSE first(stops) - 1)

\* what command.match captures as the target of the first rm -rf, nothing if
\* there is no match; the quantifiers are greedy, so the target starts as late as
\* a match allows and runs to the end of its line
rmMatch(command) ==
    LET starts == {start \in 1..Len(command) : rmTargets(command, start) # {}}
    IN  IF starts = {}
        THEN <<>>
        ELSE restOfLine(command, final(rmTargets(command, first(starts))))

\* the target is one of the safe paths or a path that ends with one
isSafeTarget(targetPath) ==
    \E safePath \in SAFE_RM_PATHS :
        LET pathLower == toLowerCase(targetPath)
            safePathLower == toLowerCase(safePath)
        IN  \/ pathLower = safePathLower
            \/ endsWith(pathLower, <<"/">> \o safePathLower)
            \/ endsWith(pathLower, <<"\\">> \o safePathLower)

isRmRfSafe(command) ==
    LET captured(rmMatch1) == rmMatch1 # <<>> /\ isSafeTarget(trim(rmMatch1))
    IN  captured(rmMatch(command))

matchesBlocked(command) ==
    \E n \in 1..Len(BLOCKED_PATTERNS) :
        test(BLOCKED_PATTERNS[n].pattern, BLOCKED_PATTERNS[n].i, command)

matchesRmRf(command) == test(rmFlags, FALSE, command)

matchesSafe(command) ==
    \E n \in 1..Len(SAFE_PATTERNS) : test(SAFE_PATTERNS[n], FALSE, command)

\* the safe patterns are tried before the blocked ones
validateHookCommand_SafeFirst(command) ==
    IF matchesSafe(command) THEN "safe"
    ELSE IF matchesBlocked(command) THEN "blocked"
    ELSE IF matchesRmRf(command)
         THEN IF isRmRfSafe(command) THEN "safe" ELSE "blocked"
    ELSE "risky"

\* the level of a command
validateHookCommand(command) ==
    IF matchesBlocked(command) THEN "blocked"
    ELSE IF matchesRmRf(command)
         THEN IF isRmRfSafe(command) THEN "safe" ELSE "blocked"
    ELSE IF matchesSafe(command) THEN "safe"
    ELSE "risky"


-----------------------------------------------------------------------------
(* Hook execution: executeHooks and runHookCommand (src/lib/hooks.ts).     *)
(* The commands of a phase are spawned and awaited one after the other;    *)
(* what a spawned command does is the environment's choice.                *)

MaxHooks == 2       \* longest command list of a phase

curlPipeSh ==    \* curl https://x | sh
    <<"c","u","r","l"," ","h","t","t","p","s",":","/","/","x"," ","|"," ","s","h">>
rmNodeModules ==    \* rm -rf node_modules
    <<"r","m"," ","-","r","f"," ","n","o","d","e","_","m","o","d","u","l","e","s">>
rmRoot ==    \* rm -rf /
    <<"r","m"," ","-","r","f"," ","/">>
customScript ==    \* ./custom-script.sh
    <<".","/","c","u","s","t","o","m","-","s","c","r","i","p","t",".","s","h">>
npmInstall ==    \* npm install
    <<"n","p","m"," ","i","n","s","t","a","l","l">>
lsThenSudo ==    \* ls; sudo x
    <<"l","s",";"," ","s","u","d","o"," ","x">>

echoThenRm ==    \* echo a; rm -rf /
    <<"e","c","h","o"," ","a",";"," ","r","m"," ","-","r","f"," ","/">>

rmEtcModules ==    \* rm -rf /etc ./node_modules
    <<"r","m"," ","-","r","f"," ","/","e","t","c"," ",".","/","n","o","d","e","_","m","o","d","u","l","e","s">>
HookCommands ==
    {NoName, curlPipeSh, rmNodeModules, rmRoot, customScript, npmInstall, lsThenSudo, echoThenRm,
     rmEtcModules}

HookLists == UNION {[1..k -> HookCommands] : k \in 0..MaxHooks}

\* validateHookCommand of each command of the model, computed once
hookLevel == [command \in HookCommands |-> validateHookCommand(command)]

validateHookCommands(commands) ==
    [n \in 1..Len(commands) |-> [level |-> hookLevel[commands[n]], command |-> commands[n]]]

\* how a spawned command ends: exit code 0, another exit code, no exit code at all
Outcomes == {"exit0", "exit1", "spawnError"}

Logged(kind, command, index) == [kind |-> kind, command |-> command, index |-> index]

\* a blocked command is left out and the others are run
hookGate_BlockedLeftOut(commands, skipHooks, trustHooks, interactive, confirmed) ==
    LET isRunnable(cmd) == hookLevel[cmd] # "blocked"
    IN  [run |-> IF skipHooks \/ trustHooks THEN <<>> ELSE SelectSeq(commands, isRunnable),
         validated |-> <<>>,
         log |-> <<>>]

\* the risky commands are run without a terminal to confirm them
hookGate_RiskyRun(commands, skipHooks, trustHooks, interactive, confirmed) ==
    LET isBlocked(cmd) == hookLevel[cmd] = "blocked"
    IN  [run |-> IF skipHooks \/ SelectSeq(commands, isBlocked) # <<>> THEN <<>> ELSE commands,
         validated |-> <<>>,
         log |-> <<>>]

\* the commands are validated whether or not they are trusted
hookGate_TrustIgnored(commands, skipHooks, trustHooks, interactive, confirmed) ==
    LET isSafe(cmd) == hookLevel[cmd] = "safe"
    IN  [run |-> IF skipHooks THEN <<>> ELSE SelectSeq(commands, isSafe),
         validated |-> IF skipHooks THEN <<>> ELSE validateHookCommands(commands),
         log |-> <<>>]

\* a prompt that is declined is taken as no terminal: the safe commands are run
hookGate_DeclinedRunsSafe(commands, skipHooks, trustHooks, interactive, confirmed) ==
    LET isBlocked(cmd) == hookLevel[cmd] = "blocked"
        isSafe(cmd) == hookLevel[cmd] = "safe"
    IN  [run |-> IF skipHooks \/ SelectSeq(commands, isBlocked) # <<>> THEN <<>>
                 ELSE IF trustHooks \/ (interactive /\ confirmed) THEN commands
                 ELSE SelectSeq(commands, isSafe),
         validated |-> <<>>,
         log |-> <<>>]
\* executeHooks on commands that are not trusted, once they are validated
afterValidation(commands, validationResults, interactive, confirmed) ==
    LET isBlocked(r) == r.level = "blocked"
        isRisky(r) == r.level = "risky"
        isSafe(cmd) == hookLevel[cmd] = "safe"
        blockedCommands == SelectSeq(validationResults, isBlocked)
        riskyCommands == SelectSeq(validationResults, isRisky)
        LogEach(kind, results) ==
            [n \in 1..Len(results) |-> Logged(kind, results[n].command, 0)]
    IN  IF blockedCommands # <<>>
        THEN [run |-> <<>>, validated |-> validationResults,
              log |-> LogEach("Blocked hook command", blockedCommands)]
        ELSE IF riskyCommands # <<>> /\ interactive
        THEN [run |-> IF confirmed THEN commands ELSE <<>>,
              validated |-> validationResults,
              log |-> LogEach("requires confirmation", riskyCommands)
                        \o (IF confirmed THEN <<>>
                            ELSE <<Logged("Hook execution cancelled by user", NoName, 0)>>)]
        ELSE IF riskyCommands # <<>>
        THEN [run |-> SelectSeq(commands, isSafe), validated |-> validationResults,
              log |-> LogEach("Skipping", riskyCommands)]
        ELSE [run |-> commands, validated |-> validationResults, log |-> <<>>]

\* executeHooks up to its loop: the commands to run, the validation results it
\* computed and what it logged
hookGate(commands, skipHooks, trustHooks, interactive, confirmed) ==
    IF skipHooks \/ commands = <<>>
    THEN [run |-> <<>>, validated |-> <<>>, log |-> <<>>]
    ELSE IF trustHooks
    THEN [run |-> commands, validated |-> <<>>, log |-> <<>>]
    ELSE afterValidation(commands, validateHookCommands(commands), interactive, confirmed)

\* the phase as it enters the loop
entered(commands, skipHooks, trustHooks, interactive, confirmed, gate) ==
    [pc |-> "running",
     commands |-> commands,
     skipHooks |-> skipHooks,
     trustHooks |-> trustHooks,
     interactive |-> interactive,
     confirmed |-> confirmed,
     validated |-> gate.validated,
     run |-> gate.run,
     i |-> 1,
     running |-> {},
     exits |-> <<>>,
     log |-> gate.log]

\* executeHooks is called for the commands of one phase, with its options, on a
\* terminal that is interactive or not and with the answer the prompt would get
ExecuteHooks ==
    /\ hook = NoPhase
    /\ \E commands \in HookLists, skipHooks \in BOOLEAN, trustHooks \in BOOLEAN,
          interactive \in BOOLEAN, confirmed \in BOOLEAN :
          hook' = entered(commands, skipHooks, trustHooks, interactive, confirmed,
                          hookGate(commands, skipHooks, trustHooks, interactive, confirmed))
    /\ UNCHANGED <<worktrees, tip, status, fs, origin, config, su, last>>

\* the next command is spawned without waiting for the one before it
RunHookCommand_NoAwait ==
    /\ hook.pc = "running"
    /\ hook.i <= Len(hook.run)
    /\ hook' = [hook EXCEPT !.i = @ + 1,
                            !.running = @ \cup {hook.i},
                            !.log = Append(@, Logged("Running", hook.run[hook.i], hook.i))]
    /\ UNCHANGED <<worktrees, tip, status, fs, origin, config, su, last>>

\* one turn of the loop: an empty command is passed over, any other is spawned
\* once the command before it is over
RunHookCommand ==
    /\ hook.pc = "running"
    /\ hook.i <= Len(hook.run)
    /\ hook.running = {}
    /\ hook' = IF hook.run[hook.i] = NoName
               THEN [hook EXCEPT !.i = @ + 1]
               ELSE [hook EXCEPT !.i = @ + 1,
                                 !.running = @ \cup {hook.i},
                                 !.log = Append(@, Logged("Running", hook.run[hook.i], hook.i))]
    /\ UNCHANGED <<worktrees, tip, status, fs, origin, config, su, last>>

\* executeCommand: an error that carries an exit code becomes a result
executeCommand(outcome) ==
    CASE outcome = "exit0" -> [error |-> FALSE, exitCode |-> 0]
      [] outcome = "exit1" -> [error |-> FALSE, exitCode |-> 1]
      [] outcome = "spawnError" -> [error |-> TRUE, exitCode |-> -1]

\* an error of the command is thrown on to the caller of executeHooks
runHookCommand_Rethrow(h, index, outcome) ==
    LET result == executeCommand(outcome)
    IN  IF result.error \/ result.exitCode # 0
        THEN [h EXCEPT !.pc = "raised", !.running = @ \ {index}]
        ELSE [h EXCEPT !.running = @ \ {index},
                       !.log = Append(@, Logged("Done", h.run[index], index))]

\* runHookCommand once the spawned command is over
runHookCommand(h, index, outcome) ==
    LET result == executeCommand(outcome)
        kind == IF result.error THEN "Error"
                ELSE IF result.exitCode # 0 THEN "Failed"
                ELSE "Done"
    IN  [h EXCEPT !.running = @ \ {index},
                  !.log = Append(@, Logged(kind, h.run[index], index))]

\* a spawned command is over
HookCommandEnds(outcome) ==
    /\ hook.pc = "running"
    /\ \E index \in hook.running :
          hook' = [runHookCommand(hook, index, outcome) EXCEPT
                      !.exits = Append(@, [index |-> index, outcome |-> outcome])]
    /\ UNCHANGED <<worktrees, tip, status, fs, origin, config, su, last>>

\* the loop is over and executeHooks returns
ExecuteHooksReturns ==
    /\ hook.pc = "running"
    /\ hook.i > Len(hook.run)
    /\ hook.running = {}
    /\ hook' = [hook EXCEPT !.pc = "returned"]
    /\ UNCHANGED <<worktrees, tip, status, fs, origin, config, su, last>>

-----------------------------------------------------------------------------
(* The commands create and remove (src/commands): the lifecycle call with  *)
(* the hook phases of the configuration file around it. A phase is kept as *)
(* what it spawned, where, and what git listed at that moment.             *)

\* executeHooks as a command calls it: the commands of the phase that are
\* spawned, run being what the gate of executeHooks lets through, in the directory
\* they are spawned in
phase(hookType, cwd, w, run) ==
    LET isCommand(command) == command # NoName
    IN  [hookType |-> hookType,
         cwd |-> cwd,
         spawned |-> SelectSeq(run, isCommand),
         listed |-> WorktreePaths(w),
         primary |-> w.worktrees[1].path]

\* what a command returns or throws, the world it leaves and the phases it ran
Ran(result, w, phases, path) == [result |-> result, w |-> w, phases |-> phases, path |-> path]

\* createCommand with a branch argument; the configuration lists no file to copy
createCommand(w, cwd, branch, options, interactive, answers) ==
    LET gitRoot == getGitRoot(w, cwd)
        enabled == Len(w.worktrees) > 1
        asked(defaultBranch, currentBranch) ==
            /\ options.from = NoName
            /\ currentBranch # defaultBranch
            /\ interactive
        baseBranch(defaultBranch, currentBranch) ==
            IF ~asked(defaultBranch, currentBranch) THEN options.from
            ELSE IF answers.base = "current" THEN currentBranch
            ELSE defaultBranch
        hooked(r) ==
            Ran("ok", r.w,
                <<phase("post_create", r.ret.path, r.w,
                        hookGate(w.config.post_create, options.skipHooks,
                                 options.trustHooks, interactive, answers.hooks).run)>>,
                r.ret.path)
        created(r) == IF r.result # "ok" THEN Ran(r.result, r.w, <<>>, <<>>) ELSE hooked(r)
        based(defaultBranch, currentBranch) ==
            IF ~defaultBranch.ok \/ ~currentBranch.ok THEN Ran("GitError", w, <<>>, <<>>)
            ELSE IF asked(defaultBranch.branch, currentBranch.branch) /\ answers.base = "cancel"
            THEN Ran("UserCancelledError", w, <<>>, <<>>)
            ELSE created(create(w, cwd, branch,
                                baseBranch(defaultBranch.branch, currentBranch.branch)))
    IN  IF ~isValidBranchName(branch) THEN Ran("ValidationError", w, <<>>, <<>>)
        ELSE IF ~enabled THEN Ran("ValidationError", w, <<>>, <<>>)
        ELSE based(getDefaultBranch(w, gitRoot), gitGetCurrentBranch(w, gitRoot))

\* removeCommand with a branch argument; run holds, for each of its two phases,
\* the commands the gate of executeHooks lets through
removeCommand(w, cwd, branch, options, interactive, answers) ==
    LET found == {i \in Indexes(w) : w.worktrees[i].branch = branch}
        GitErrors == {"GitError", "UncommittedChangesError", "UnmergedBranchError"}
        pre(worktreePath, run) == phase("pre_remove", worktreePath, w, run.pre_remove)
        gone(left, worktreePath, run) ==
            Ran("ok", left,
                <<pre(worktreePath, run),
                  phase("post_remove", getGitRoot(w, cwd), left, run.post_remove)>>,
                worktreePath)
        kept(r, worktreePath, run) == Ran(r.result, r.w, <<pre(worktreePath, run)>>, worktreePath)
        forced(r, worktreePath, run) ==
            IF r.result # "ok" THEN kept(r, worktreePath, run)
            ELSE gone(r.w, worktreePath, run)
        removed(r, worktreePath, run) ==
            IF r.result = "ok" THEN gone(r.w, worktreePath, run)
            ELSE IF ~(r.result \in GitErrors /\ interactive /\ ~options.force)
            THEN kept(r, worktreePath, run)
            ELSE IF ~answers.force
            THEN kept([result |-> "UserCancelledError", w |-> r.w], worktreePath, run)
            ELSE forced(remove(r.w, cwd, branch, TRUE), worktreePath, run)
    IN  IF interactive /\ ~answers.remove THEN Ran("cancelled", w, <<>>, <<>>)
        ELSE IF found = {} THEN Ran("ValidationError", w, <<>>, <<>>)
        ELSE removed(remove(w, cwd, branch, options.force),
                     w.worktrees[first(found)].path,
                     [hookType \in {"pre_remove", "post_remove"} |->
                         hookGate(w.config[hookType], options.skipHooks, FALSE,
                                  interactive, answers.hooks).run])

\* the options a command can be given, the terminal it runs on and the answers
\* its prompts can get; a terminal that is not interactive prompts for nothing
Inputs(op) ==
    LET options ==
            [from : {NoName}, force : IF op = "remove" THEN BOOLEAN ELSE {FALSE},
             skipHooks : BOOLEAN, trustHooks : IF op = "create" THEN BOOLEAN ELSE {FALSE}]
        answers(interactive) ==
            IF ~interactive
            THEN {[remove |-> FALSE, hooks |-> FALSE, force |-> FALSE, base |-> "cancel"]}
            ELSE IF op = "remove"
            THEN [remove : BOOLEAN, hooks : BOOLEAN, force : BOOLEAN, base : {"cancel"}]
            ELSE [remove : {FALSE}, hooks : BOOLEAN, force : {FALSE},
                  base : {"current", "default", "cancel"}]
    IN  UNION {[options : options, interactive : {i}, answers : answers(i)] : i \in BOOLEAN}

\* the command create is run; what is kept of it is how it ended and its phases
CreateCommand ==
    /\ su = NotRunning
    /\ last = Idle
    /\ \E cwd \in WorktreePaths(World), branch \in BranchArgs, in \in Inputs("create") :
          LET ended(ran) ==
                /\ Becomes(ran.w)
                /\ last' = [op |-> "createCommand", id |-> branch, force |-> FALSE,
                            interactive |-> in.interactive, result |-> ran.result,
                            phases |-> ran.phases, path |-> ran.path,
                            pre |-> Before(World, cwd, branch)]
          IN  ended(createCommand(World, cwd, branch, in.options, in.interactive,
                                  in.answers))
    /\ UNCHANGED <<su, hook>>

\* the command remove is run
RemoveCommand ==
    /\ su = NotRunning
    /\ last = Idle
    /\ \E cwd \in WorktreePaths(World), branch \in Identifiers, in \in Inputs("remove") :
          LET ended(ran) ==
                /\ Becomes(ran.w)
                /\ last' = [op |-> "removeCommand", id |-> branch,
                            force |-> in.options.force,
                            interactive |-> in.interactive, result |-> ran.result,
                            phases |-> ran.phases, path |-> ran.path,
                            pre |-> Before(World, cwd, branch)]
          IN  ended(removeCommand(World, cwd, branch, in.options, in.interactive,
                                  in.answers))
    /\ UNCHANGED <<su, hook>>

\* the invoking process ends and its result is gone
Exit ==
    /\ last # Idle
    /\ last' = Idle
    /\ UNCHANGED <<worktrees, tip, status, fs, origin, config, su, hook>>

Init ==
    /\ worktrees = <<[path |-> <<repo>>, branch |-> main]>>
    /\ tip = (main :> {0})
    /\ status = (<<repo>> :> {})
    /\ fs = {<<repo>>, <<repo, dotGit>>, <<repo, srcDir>>}
    /\ origin = [head |-> main, tip |-> (main :> {0}) @@ (featureDashLogin :> {0})]
    /\ config = [defaultBranch |-> NoName]
    /\ su = NotRunning
    /\ hook = NoPhase
    /\ last = Idle

Next ==
    \/ \E cwd \in WorktreePaths(World), b \in BranchArgs, base \in BaseArgs :
          Create(cwd, b, base)
    \/ \E cwd \in WorktreePaths(World), b \in BranchArgs : Checkout(cwd, b)
    \/ \E cwd \in WorktreePaths(World), id \in Identifiers, force \in BOOLEAN :
          Remove(cwd, id, force)
    \/ \E path \in WorktreePaths(World), line \in StatusLines : Edit(path, line)
    \/ \E path \in WorktreePaths(World) : Discard(path)
    \/ \E path \in WorktreePaths(World) : Commit(path)
    \/ \E b \in DOMAIN tip : Merge(b)
    \/ \E cwd \in SetupCwds, targetDir \in TargetArgs : SetupStart(cwd, targetDir)
    \/ SetupMove
    \/ SetupRename
    \/ SetupRestore
    \/ SetupCleanup
    \/ Interrupt
    \/ Exit

Spec == Init /\ [][Next]_vars

\* ---------------------------------------------------------------------------
\* create over every short branch name, from a fresh clone that may already hold
\* some branches

nested == <<"a", "/", "b", "/", "c">>

NameChars == {"a", "/", ".", "-", "@", "{", " ", "\n", ";", "~"}

NamingArgs ==
    UNION {[1..k -> NameChars] : k \in 0..MaxNameLen}
        \cup {main, featureLogin, nested, lockName, dotDot}

InitNaming ==
    /\ worktrees = <<[path |-> <<repo>>, branch |-> main]>>
    /\ \E held \in SUBSET {featureLogin, nested} : tip = [b \in {main} \cup held |-> {0}]
    /\ status = (<<repo>> :> {})
    /\ fs = {<<repo>>, <<repo, dotGit>>, <<repo, srcDir>>}
    /\ origin = [head |-> main, tip |-> (main :> {0})]
    /\ config = [defaultBranch |-> NoName]
    /\ su = NotRunning
    /\ hook = NoPhase
    /\ last = Idle

NextNaming == \E b \in NamingArgs : Create(<<repo>>, b, NoName)

SpecNaming == InitNaming /\ [][NextNaming]_vars

\* ---------------------------------------------------------------------------
\* create of one new branch over the clones that differ in what a base branch can
\* be resolved from: the remote HEAD, the local branches, the checked-out branch,
\* the defaultBranch of the configuration file, the base argument

RemoteHeads == {NoName, main, dev}

ConfiguredDefaults == {NoName, master, dev}

BaseChoices == {NoName, master, dev}

InitBase ==
    /\ \E cur \in {main, master, dev, featureDashLogin}, held \in SUBSET {main, master, dev} :
          /\ worktrees = <<[path |-> <<repo>>, branch |-> cur]>>
          /\ tip = [b \in {cur} \cup held |-> {0}]
    /\ status = (<<repo>> :> {})
    /\ fs = {<<repo>>, <<repo, dotGit>>, <<repo, srcDir>>}
    /\ \E head \in RemoteHeads :
          origin = [head |-> head,
                    tip |-> IF head = NoName THEN <<>> ELSE (head :> {0})]
    /\ \E d \in ConfiguredDefaults : config = [defaultBranch |-> d]
    /\ su = NotRunning
    /\ hook = NoPhase
    /\ last = Idle

NextBase == \E base \in BaseChoices : Create(<<repo>>, featureLogin, base)

SpecBase == InitBase /\ [][NextBase]_vars

\* ---------------------------------------------------------------------------
\* one setup of a fresh clone, over what the clone holds at its top level, with
\* signals at any point and with moves of the rollback that may fail

docDir == <<"d", "o", "c">>

InitSetup ==
    /\ worktrees = <<[path |-> <<repo>>, branch |-> main]>>
    /\ tip = (main :> {0})
    /\ \E lines \in {{}, {<<"?", "?", "a.txt">>}} : status = (<<repo>> :> lines)
    /\ \E held \in SUBSET {srcDir, docDir} :
          fs = {<<repo>>, <<repo, dotGit>>} \cup {<<repo, e>> : e \in held}
    /\ origin = [head |-> main, tip |-> (main :> {0})]
    /\ config = [defaultBranch |-> NoName]
    /\ su = NotRunning
    /\ hook = NoPhase
    /\ last = Idle

NextSetup ==
    \/ \E targetDir \in TargetArgs : SetupStart(<<repo>>, targetDir)
    \/ SetupMove
    \/ SetupRename
    \/ SetupRestore
    \/ SetupRestoreFails
    \/ SetupCleanup
    \/ Interrupt

SpecSetup == InitSetup /\ [][NextSetup]_vars

\* ---------------------------------------------------------------------------
\* one hook phase, over the short command lists, the options of executeHooks, the
\* terminal being interactive or not, the answer to the prompt and the ways a
\* spawned command can end

NextHooks ==
    \/ ExecuteHooks
    \/ RunHookCommand
    \/ \E outcome \in Outcomes : HookCommandEnds(outcome)
    \/ ExecuteHooksReturns

SpecHooks == Init /\ [][NextHooks]_vars

\* ---------------------------------------------------------------------------
\* create in a clone where the directory of a linked worktree was deleted by hand:
\* git still lists the worktree, at a path that does not exist

InitStale ==
    /\ \E b \in {featureLogin, featureDashLogin}, held \in SUBSET {dev, master} :
          /\ worktrees = <<[path |-> <<repo>>, branch |-> main],
                           [path |-> <<branchToDirName(b)>>, branch |-> b]>>
          /\ tip = [x \in {main, b} \cup held |-> {0}]
    /\ \E lines \in {{}, {<<"?", "?", "a.txt">>}} : status = (<<repo>> :> lines)
    /\ fs = {<<repo>>, <<repo, dotGit>>, <<repo, srcDir>>}
    /\ \E head \in RemoteHeads :
          origin = [head |-> head,
                    tip |-> IF head = NoName THEN <<>> ELSE (head :> {0})]
    /\ config = [defaultBranch |-> NoName]
    /\ su = NotRunning
    /\ hook = NoPhase
    /\ last = Idle

NextStale == \E b \in BranchArgs, base \in BaseChoices : Create(<<repo>>, b, base)

SpecStale == InitStale /\ [][NextStale]_vars

\* ---------------------------------------------------------------------------
\* the commands create and remove in a clone whose configuration file lists
\* hooks, with the user's work and the library's create in between

InitCommands ==
    /\ worktrees = <<[path |-> <<repo>>, branch |-> main]>>
    /\ tip = (main :> {0})
    /\ status = (<<repo>> :> {})
    /\ fs = {<<repo>>, <<repo, dotGit>>, <<repo, srcDir>>}
    /\ origin = [head |-> main, tip |-> (main :> {0}) @@ (featureDashLogin :> {0})]
    /\ config \in
          {[defaultBranch |-> NoName, post_create |-> <<>>, pre_remove |-> <<>>,
            post_remove |-> <<>>],
           [defaultBranch |-> NoName, post_create |-> <<npmInstall>>,
            pre_remove |-> <<rmNodeModules>>, post_remove |-> <<npmInstall>>],
           [defaultBranch |-> NoName, post_create |-> <<npmInstall, customScript>>,
            pre_remove |-> <<customScript>>, post_remove |-> <<customScript, npmInstall>>],
           [defaultBranch |-> NoName, post_create |-> <<rmRoot>>,
            pre_remove |-> <<npmInstall, curlPipeSh>>, post_remove |-> <<npmInstall>>]}
    /\ su = NotRunning
    /\ hook = NoPhase
    /\ last = Idle

NextCommands ==
    \/ CreateCommand
    \/ RemoveCommand
    \/ \E cwd \in WorktreePaths(World), b \in BranchArgs : Create(cwd, b, NoName)
    \/ \E path \in WorktreePaths(World) : Edit(path, <<" ", "M", "a.txt">>)
    \/ Exit

SpecCommands == InitCommands /\ [][NextCommands]_vars

\* ---------------------------------------------------------------------------
\* Properties of remove

\* what the caller of the last call holds
Called(op) == last # Idle /\ last.op = op

Prims(calls) == {calls[i].prim : i \in 1..Len(calls)}

\* the status of a working tree reports a staged, an unstaged or an untracked entry
Reports(lines) ==
    \E l \in lines : \/ l[1] = "?" /\ l[2] = "?"
                     \/ l[1] \notin {" ", "?"}
                     \/ l[2] \notin {" ", "?"}

\* C1: a remove without force does not succeed and does not reach git worktree
\* remove while the status of the worktree it names reports a staged, an unstaged
\* or an untracked entry
C1_DirtyNeverRemoved ==
    (Called("remove") /\ ~last.force /\ Reports(last.pre.lines)) =>
        /\ last.result # "ok"
        /\ "worktree remove" \notin Prims(last.calls)
        /\ last.pre.path \in WorktreePaths(World)

\* a remove without force was refused over a worktree whose only entry is untracked
C1_Witness ==
    /\ Called("remove")
    /\ ~last.force
    /\ last.pre.index > 1
    /\ last.pre.lines = {<<"?", "?", "a.txt">>}
    /\ last.result = "UncommittedChangesError"

\* C2: a remove without force succeeds only if the branch it names is an ancestor
\* of the default branch of the repository
C2_UnmergedNeverRemoved ==
    (Called("remove") /\ ~last.force /\ last.result = "ok") => last.pre.ancestor

\* a remove without force was refused over a clean worktree whose branch is ahead
\* of the default branch
C2_Witness ==
    /\ Called("remove")
    /\ ~last.force
    /\ last.pre.index > 1
    /\ last.pre.branchExisted
    /\ ~last.pre.ancestor
    /\ ~Reports(last.pre.lines)
    /\ last.result = "UnmergedBranchError"

C4_ForceBypasses ==
    (Called("remove") /\ last.force /\ last.pre.index > 1) =>
        /\ last.result = "ok"
        /\ "status --porcelain" \notin Prims(last.calls)
        /\ "merge-base --is-ancestor" \notin Prims(last.calls)
        /\ last.calls[Len(last.calls)]
               = Call("worktree remove", <<last.pre.path, TRUE>>, TRUE)
        /\ last.pre.path \notin WorktreePaths(World)
        /\ last.pre.path \notin fs

\* a forced remove took away a worktree with uncommitted changes and an unmerged branch
C4_Witness ==
    /\ Called("remove")
    /\ last.force
    /\ last.pre.index > 1
    /\ Reports(last.pre.lines)
    /\ ~last.pre.ancestor
    /\ last.result = "ok"

\* C5: the status check comes before the merge check and the first failure is the
\* one reported: a remove without force of a worktree with uncommitted changes and
\* an unmerged branch raises UncommittedChangesError, and UnmergedBranchError is
\* raised only over a clean working directory
C5_UncommittedBeforeUnmerged ==
    /\ (Called("remove") /\ ~last.force /\ last.pre.index >= 1
            /\ Reports(last.pre.lines) /\ ~last.pre.ancestor)
          => /\ last.result = "UncommittedChangesError"
             /\ "merge-base --is-ancestor" \notin Prims(last.calls)
    /\ (Called("remove") /\ last.result = "UnmergedBranchError")
          => ~Reports(last.pre.lines)

\* a remove without force met uncommitted changes and an unmerged branch at once
C5_Witness ==
    /\ Called("remove")
    /\ ~last.force
    /\ last.pre.index > 1
    /\ Reports(last.pre.lines)
    /\ last.pre.branchExisted
    /\ ~last.pre.ancestor
    /\ last.result = "UncommittedChangesError"

\* ---------------------------------------------------------------------------
\* Properties of failing calls

SafetyOrValidation == {"ValidationError", "UncommittedChangesError", "UnmergedBranchError"}

\* C6: a create, a remove or a setup that fails with a ValidationError, an
\* UncommittedChangesError or an UnmergedBranchError leaves the worktrees, the
\* branches and the filesystem as they were before the call
C6_FailureWithoutSideEffect ==
    [][(/\ last = Idle
        /\ last' # Idle
        /\ last'.op \in {"create", "remove", "setup"}
        /\ last'.result \in SafetyOrValidation)
         => /\ worktrees' = worktrees
            /\ tip' = tip
            /\ fs' = fs
            /\ status' = status]_vars

\* a setup was refused over a clone with a modified tracked file
C6_Witness ==
    /\ Called("setup")
    /\ last.result = "UncommittedChangesError"
    /\ Reports(status[worktrees[1].path])

\* ---------------------------------------------------------------------------
\* Properties of create

\* the reference-naming rules as the specification lists them
Control == {"\n", "\t", "\r"}

Whitespace == {" "}

ShellMeta == {";", "&", "|", "$", "(", ")", "<", ">"}

Has(b, x) == \E i \in 1..Len(b) : b[i] = x

HasPair(b, x, y) == \E i \in 1..(Len(b) - 1) : b[i] = x /\ b[i + 1] = y

ViolatesNamingRules(b) ==
    \/ Len(b) = 0
    \/ Len(b) > 0 /\ b[1] \in {"/", ".", "-"}
    \/ Len(b) > 0 /\ b[Len(b)] \in {"/", "."}
    \/ Len(b) >= 5 /\ [i \in 1..5 |-> b[Len(b) - 5 + i]] = <<".", "l", "o", "c", "k">>
    \/ \E c \in Control \cup Whitespace \cup ShellMeta : Has(b, c)
    \/ HasPair(b, ".", ".")
    \/ HasPair(b, "@", "{")
    \/ HasPair(b, "/", "/")

\* C7: for every branch name that violates the reference-naming rules, create
\* fails with ValidationError and no backend call is made
C7_InvalidNameRejected ==
    (Called("create") /\ ViolatesNamingRules(last.id)) =>
        /\ last.result = "ValidationError"
        /\ last.calls = <<>>

\* a create was refused for a name with two dots in it
C7_Witness ==
    /\ Called("create")
    /\ last.id = dotDot
    /\ last.result = "ValidationError"

\* the name with a dash wherever it has a slash
Dashed(b) == [i \in 1..Len(b) |-> IF b[i] = "/" THEN "-" ELSE b[i]]

\* C8: a create that succeeds returns the branch it was given, a path whose last
\* component is that name with every slash replaced by a dash, and created = TRUE
\* exactly when the branch did not exist before the call
C8_CreateResult ==
    (Called("create") /\ last.result = "ok") =>
        /\ last.ret.branch = last.id
        /\ Len(last.ret.path) >= 1
        /\ last.ret.path[Len(last.ret.path)] = Dashed(last.id)
        /\ last.ret.created = ~last.pre.branchExisted

\* create of f/l with no such branch before returned created = TRUE and a path
\* that ends in f-l
C8_Witness ==
    /\ Called("create")
    /\ last.id = featureLogin
    /\ ~last.pre.branchExisted
    /\ last.result = "ok"
    /\ last.ret = [path |-> <<featureDashLogin>>, branch |-> featureLogin, created |-> TRUE]

\* the base the priority order of the specification gives: the argument, the
\* configured default when it names a branch of the repository, the remote
\* default, local main, local master, the checked-out branch
ExpectedBase ==
    IF last.arg # NoName THEN last.arg
    ELSE IF config.defaultBranch \in DOMAIN tip THEN config.defaultBranch
    ELSE IF origin.head # NoName THEN origin.head
    ELSE IF main \in DOMAIN tip THEN main
    ELSE IF master \in DOMAIN tip THEN master
    ELSE worktrees[1].branch

\* C9: create resolves the base branch in the order explicit argument, configured
\* default, remote default, local main, local master, checked-out branch, and
\* takes the first there is
C9_BasePriority ==
    (Called("create") /\ last.result = "ok" /\ last.ret.created) =>
        last.base = ExpectedBase

\* C10: after any sequence of create, checkout, setup and remove, no two worktree
\* records share a path and no two share a branch that is not detached
C10_UniqueRecords ==
    \A i, j \in 1..Len(worktrees) :
        i # j => /\ worktrees[i].path # worktrees[j].path
                 /\ (worktrees[i].branch # DETACHED
                        => worktrees[i].branch # worktrees[j].branch)

\* a create was refused for the branch the primary worktree has checked out, next
\* to a linked worktree
C10_Witness ==
    /\ Called("create")
    /\ last.id = worktrees[1].branch
    /\ "worktree add" \in Prims(last.calls)
    /\ last.result = "GitError"
    /\ Len(worktrees) >= 2

\* ---------------------------------------------------------------------------
\* Properties of setup

\* setup threw after its try block was entered
SetupRolledBack == Called("setup") /\ last.result = "FileSystemError"

UnderStaging(paths, cwd) == {q \in paths : Len(q) > Len(cwd) /\ q[Len(cwd) + 1] = tempDir
                                           /\ [i \in 1..Len(cwd) |-> q[i]] = cwd}

C12_RollbackErrorsAttached ==
    SetupRolledBack =>
        /\ last.pre.thrown.message = last.pre.cause
        /\ last.pre.thrown.attached = last.pre.rollbackErrors

TrackedChanges(lines) == \E l \in lines : ~(l[1] = "?" /\ l[2] = "?")

\* C14: setup starts to move only from the root of the repository, outside a
\* linked worktree and with no change to tracked files; a setup that fails before
\* it starts to move has made no staging directory and moved nothing
C14_SetupPreconditions ==
    [][/\ (su.pc = "idle" /\ su'.pc = "moving")
            => /\ su'.cwd = worktrees[1].path
               /\ Append(su'.cwd, dotGit) \in fs
               /\ ~TrackedChanges(status[su'.cwd])
       /\ (su.pc = "idle" /\ last = Idle /\ last' # Idle /\ last'.op = "setup")
            => /\ last'.result # "ok"
               /\ fs' = fs
               /\ worktrees' = worktrees
               /\ su'.pc = "idle"]_vars

\* a setup called in a linked worktree was refused
C14_Witness ==
    /\ Called("setup")
    /\ last.result = "ValidationError"
    /\ last.pre.index > 1
    /\ Append(<<repo>>, tempDir) \notin fs

\* ---------------------------------------------------------------------------
\* Properties of the hook phase

\* the commands spawned so far, in the order they were spawned
Spawned(h) ==
    LET isRunning(l) == l.kind = "Running"
        lines == SelectSeq(h.log, isRunning)
    IN  [n \in 1..Len(lines) |-> lines[n].command]

\* the commands of a list that classify as the level
OfLevel(commands, level) ==
    LET is(cmd) == hookLevel[cmd] = level
    IN  SelectSeq(commands, is)

\* C15: when the trust flag is not set and a command of the phase list classifies
\* as blocked, no command of the phase is executed, the safe commands listed
\* before the blocked one included.
C15_BlockedAbortsPhase ==
    (hook # NoPhase /\ ~hook.trustHooks /\ OfLevel(hook.commands, "blocked") # <<>>)
        => (Spawned(hook) = <<>> /\ hook.running = {})

C15_Witness ==
    /\ hook # NoPhase
    /\ hook.pc = "returned"
    /\ ~hook.trustHooks /\ ~hook.skipHooks
    /\ hook.commands = <<npmInstall, rmRoot>>
    /\ Spawned(hook) = <<>>

\* C16: without a terminal and without the trust flag, a phase whose list holds no
\* blocked command executes exactly its safe commands, in the order of the list,
\* and reports each risky command as skipped.
C16_NonInteractiveRunsSafeOnly ==
    (/\ hook # NoPhase
     /\ hook.pc = "returned"
     /\ ~hook.skipHooks /\ ~hook.trustHooks /\ ~hook.interactive
     /\ OfLevel(hook.commands, "blocked") = <<>>)
        => /\ Spawned(hook) = OfLevel(hook.commands, "safe")
           /\ \A n \in 1..Len(hook.commands) :
                 hookLevel[hook.commands[n]] = "risky"
                     => \E l \in 1..Len(hook.log) :
                           /\ hook.log[l].kind = "Skipping"
                           /\ hook.log[l].command = hook.commands[n]

C16_Witness ==
    /\ hook # NoPhase
    /\ hook.pc = "returned"
    /\ ~hook.skipHooks /\ ~hook.trustHooks /\ ~hook.interactive
    /\ hook.commands = <<customScript, npmInstall>>
    /\ Spawned(hook) = <<npmInstall>>

\* the log line of kind that follows the end of the command at index
Reported(h, index, kind) ==
    \E l \in 1..Len(h.log) : h.log[l].kind = kind /\ h.log[l].index = index

\* C17: a command that exits with a non-zero code or cannot be spawned neither
\* stops the commands after it nor makes the phase raise: every command to run is
\* spawned, and each is reported by how itself ended.
C17_FailureDoesNotStopPhase ==
    hook # NoPhase =>
        /\ hook.pc \in {"running", "returned"}
        /\ \A n \in 1..Len(hook.exits) :
              LET e == hook.exits[n]
              IN  Reported(hook, e.index, CASE e.outcome = "exit0" -> "Done"
                                            [] e.outcome = "exit1" -> "Failed"
                                            [] e.outcome = "spawnError" -> "Error")
        /\ hook.pc = "returned" =>
              \A index \in 1..Len(hook.run) :
                  hook.run[index] # NoName =>
                      /\ Reported(hook, index, "Running")
                      /\ \E n \in 1..Len(hook.exits) : hook.exits[n].index = index

C17_Witness ==
    /\ hook # NoPhase
    /\ hook.pc = "returned"
    /\ hook.run = <<customScript, npmInstall>>
    /\ hook.exits = <<[index |-> 1, outcome |-> "exit1"], [index |-> 2, outcome |-> "exit0"]>>
    /\ Reported(hook, 1, "Failed")
    /\ Reported(hook, 2, "Done")

\* the place in the log of the line of kind for the command at index, 0 if none
LineOf(h, index, kinds) ==
    LET at == {l \in 1..Len(h.log) : h.log[l].kind \in kinds /\ h.log[l].index = index}
    IN  IF at = {} THEN 0 ELSE CHOOSE l \in at : \A m \in at : l <= m

\* C18: the commands of a phase run one at a time in the order of the list: a
\* command is spawned only after every command spawned before it is over.
C18_Sequential ==
    hook # NoPhase =>
        /\ Cardinality(hook.running) <= 1
        /\ \A j \in 1..Len(hook.run), k \in 1..Len(hook.run) :
              (k < j /\ LineOf(hook, j, {"Running"}) # 0 /\ hook.run[k] # NoName)
                  => /\ LineOf(hook, k, {"Running"}) # 0
                     /\ LineOf(hook, k, {"Running"}) < LineOf(hook, k, {"Done", "Failed", "Error"})
                     /\ LineOf(hook, k, {"Done", "Failed", "Error"}) < LineOf(hook, j, {"Running"})

C18_Witness ==
    /\ hook # NoPhase
    /\ hook.run = <<npmInstall, rmNodeModules>>
    /\ hook.running = {2}
    /\ LineOf(hook, 1, {"Done", "Failed", "Error"}) # 0

\* C19: with the trust flag set no command is classified, and the phase executes
\* every command of its list in order, the risky and the blocked ones too.
C19_TrustBypassesValidation ==
    (hook # NoPhase /\ hook.trustHooks /\ ~hook.skipHooks)
        => /\ hook.validated = <<>>
           /\ hook.run = hook.commands
           /\ hook.pc = "returned" =>
                 LET isCommand(cmd) == cmd # NoName
                 IN  Spawned(hook) = SelectSeq(hook.commands, isCommand)

C19_Witness ==
    /\ hook # NoPhase
    /\ hook.pc = "returned"
    /\ hook.trustHooks /\ ~hook.skipHooks
    /\ hook.commands = <<curlPipeSh, customScript>>
    /\ Spawned(hook) = <<curlPipeSh, customScript>>

\* the level that the rules give when the first rule that matches decides
FirstRule ==
    [command \in HookCommands |->
        IF matchesBlocked(command) THEN "blocked"
        ELSE IF matchesRmRf(command)
             THEN IF isRmRfSafe(command) THEN "safe" ELSE "blocked"
        ELSE IF matchesSafe(command) THEN "safe"
        ELSE "risky"]

\* C20: the level of a command is decided by the first rule that matches, in the
\* order blocked patterns, rm -rf outside the safe paths, safe patterns, default:
\* a command that matches a blocked pattern and a safe pattern is blocked, a command
\* that matches nothing is risky, and the four commands of the examples get the
\* levels blocked, safe, blocked and risky.
C20_FirstRuleDecides ==
    hook # NoPhase =>
        \A n \in 1..Len(hook.validated) :
            LET r == hook.validated[n]
            IN  /\ r.level = FirstRule[r.command]
                /\ r.command = lsThenSudo => r.level = "blocked"
                /\ r.command = curlPipeSh => r.level = "blocked"
                /\ r.command = rmNodeModules => r.level = "safe"
                /\ r.command = rmRoot => r.level = "blocked"
                /\ r.command = customScript => r.level = "risky"

C20_Witness ==
    /\ hook # NoPhase
    /\ \E n \in 1..Len(hook.validated) :
          /\ hook.validated[n].command = lsThenSudo
          /\ matchesSafe(lsThenSudo)
          /\ matchesBlocked(lsThenSudo)
          /\ hook.validated[n].level = "blocked"
    /\ \E n \in 1..Len(hook.validated) :
          /\ hook.validated[n].command = customScript
          /\ hook.validated[n].level = "risky"

\* ---------------------------------------------------------------------------
\* Properties of the lifecycle calls, continued

\* C22: a remove without force of a worktree whose status reports exactly one
\* modified tracked file raises an UncommittedChangesError that names the file.
C22_ErrorNamesFile ==
    (Called("remove") /\ ~last.force /\ last.pre.index > 1
        /\ last.pre.lines = {<<" ", "M", "a.txt">>})
        => /\ last.result = "UncommittedChangesError"
           /\ "a.txt" \in last.ret.statusSummary


\* C26: a remove without force that succeeds removes a worktree whose checked-out
\* branch is the identifier it was given, and that branch, the one checked out in
\* the directory removed, is merged into the default branch
C26_RemovesNamedBranch ==
    [][(last'.op = "remove" /\ ~last'.force /\ last'.result = "ok") =>
          LET removed == worktrees[last'.pre.index]
              default == getDefaultBranch(World, worktrees[1].path).branch
          IN  /\ removed.path \notin WorktreePaths([worktrees |-> worktrees'])
              /\ removed.branch = last'.id
              /\ tip[removed.branch] \subseteq tip[default]]_vars

-----------------------------------------------------------------------------
(* Properties of create, continued. *)

\* C29: a create that raises an error leaves no branch behind: the branch it was
\* called for exists afterwards only if it existed before the call
C29_CreateAllOrNothing ==
    (Called("create") /\ last.result # "ok" /\ last.id \in DOMAIN tip)
        => last.pre.branchExisted

-----------------------------------------------------------------------------
(* Properties of setup, continued. *)

\* C23: while setup moves, at every point between two moves (where the interrupt
\* flag is examined) the rollback ledger lists exactly the entries that lie
\* directly in the staging directory, each once
C23_LedgerIsStaging ==
    su.pc = "moving" =>
        LET direct == {r \in UnderStaging(fs, su.cwd) : Len(r) = Len(su.cwd) + 2}
            InStaging == {q[Len(q)] : q \in direct}
        IN  /\ {su.itemsToRollback[i] : i \in 1..Len(su.itemsToRollback)} = InStaging
            /\ Cardinality(InStaging) = Len(su.itemsToRollback)

\* one entry is moved, others are still to move, and a signal has arrived that
\* the loop has not examined yet
C23_Witness ==
    /\ su.pc = "moving"
    /\ Len(su.itemsToRollback) = 1
    /\ Len(su.items) > 0
    /\ su.interrupted


\* C25: however setup ends, every entry that was at the top level of the
\* repository root before the call is still there afterwards: at its path, in
\* the target directory or in the staging directory
C25_NoEntryLost ==
    (Called("setup") /\ (last.result = "ok" \/ SetupRolledBack)) =>
        LET cwd == last.pre.cwd
            top == {q \in last.pre.before : Len(q) = Len(cwd) + 1
                                            /\ [i \in 1..Len(cwd) |-> q[i]] = cwd}
        IN  \A q \in top :
                \/ q \in fs
                \/ \E dir \in {r \in fs : Len(r) = Len(cwd) + 1} : Append(dir, q[Len(q)]) \in fs

\* C28: a setup that has received a signal while it moves, at any point before
\* the staging directory takes the target name, does not return: it rolls back
C28_InterruptRollsBack ==
    [][(su.pc = "moving" /\ su.interrupted)
          => ~(last'.op = "setup" /\ last'.result = "ok")]_vars

-----------------------------------------------------------------------------
(* Properties of the hook phases, continued. *)

\* C24: when the trust flag is not set, a risky command is spawned only on an
\* interactive terminal where the prompt was confirmed; when the prompt is
\* declined no command of the phase is spawned.
C24_RiskyNeedsConfirmation ==
    (hook # NoPhase /\ ~hook.trustHooks) =>
        /\ OfLevel(Spawned(hook), "risky") # <<>> => (hook.interactive /\ hook.confirmed)
        /\ (hook.interactive /\ ~hook.confirmed /\ OfLevel(hook.commands, "risky") # <<>>)
              => (Spawned(hook) = <<>> /\ hook.running = {} /\ hook.run = <<>>)

\* a risky command is running after the prompt was confirmed
C24_Witness ==
    /\ hook # NoPhase
    /\ ~hook.trustHooks
    /\ hook.interactive
    /\ hook.confirmed
    /\ hook.commands = <<npmInstall, customScript>>
    /\ hook.running = {2}


\* C30: a command with an rm -rf is classified safe only if every path the rm is
\* given, each word after its flags, is one of the safe paths or ends with one; a
\* safe name at the end of the command text is not enough.
C30_EveryTargetSafe ==
    hook # NoPhase =>
        \A n \in 1..Len(hook.validated) :
            LET command == hook.validated[n].command
                targets == trim(rmMatch(command))
                isWord(i, j) ==
                    /\ \A k \in i..j : targets[k] \notin WhiteSpace
                    /\ i = 1 \/ targets[i - 1] \in WhiteSpace
                    /\ j = Len(targets) \/ targets[j + 1] \in WhiteSpace
                words == {Sub(targets, ij[1], ij[2]) :
                            ij \in {x \in (1..Len(targets)) \X (1..Len(targets)) :
                                        x[1] <= x[2] /\ isWord(x[1], x[2])}}
            IN  (matchesRmRf(command) /\ hook.validated[n].level = "safe")
                    => \A word \in words : isSafeTarget(word)


-----------------------------------------------------------------------------
(* Properties of the commands. *)

\* C21: each hook phase runs at its point and in its directory: post_create once
\* the worktree is created, in the new worktree; pre_remove while the worktree to
\* remove is still there, in that worktree; post_remove only once the removal has
\* succeeded, in the primary worktree, wherever the command was called from.
C21_PhasesBound ==
    (Called("createCommand") \/ Called("removeCommand")) =>
        \A k \in 1..Len(last.phases) :
            LET ph == last.phases[k]
            IN  /\ ph.hookType = "post_create"
                    => (ph.cwd = last.path /\ ph.cwd \in ph.listed /\ last.result = "ok")
                /\ ph.hookType = "pre_remove"
                    => (ph.cwd = last.pre.path /\ ph.cwd \in ph.listed /\ k = 1)
                /\ ph.hookType = "post_remove"
                    => /\ last.result = "ok"
                       /\ last.pre.path \notin ph.listed
                       /\ ph.cwd = ph.primary

\* C27: a remove command without force that is refused, for a safety violation or
\* for a target it cannot resolve, and so removes no worktree, has spawned no hook
\* command of any phase.
C27_RefusedRunsNoHook ==
    (/\ Called("removeCommand")
     /\ ~last.force
     /\ last.result \in {"ValidationError", "FileSystemError", "UncommittedChangesError",
                         "UnmergedBranchError"})
        => \A k \in 1..Len(last.phases) : last.phases[k].spawned = <<>>

====
